---- MODULE Spec2Model ----
(***************************************************************************)
(* RealityCheckEngine (src/realityCheck.ts): the scoring / verdict engine  *)
(* and the asynchronous load of its ingredient reference table; and        *)
(* scrapeProduct (src/scrapeProduct.ts), the router over the platform      *)
(* scrapers with its generic fallback.                                     *)
(*                                                                         *)
(* Text that the program inspects character by character (prices,          *)
(* ingredient names, hashtags, product names) is a sequence of             *)
(* one-character strings.  Enumerated result values that the program only  *)
(* compares as a whole ('poor', 'amazon', ...) are plain strings.          *)
(* A JavaScript number that may be NaN is an integer or the value NaN.     *)
(* Arithmetic is exact: the double rounding of the weighted sum is not     *)
(* modelled.  analysis_timestamp (wall-clock time) is left out of the      *)
(* result record.                                                          *)
(***************************************************************************)
EXTENDS Integers, Sequences, FiniteSets, TLC

VARIABLES ingredientsDatabase, loadPending, product, social, reviews, last, observed,
          request, openPage,
          userProfile, ingredientDB,
          browsers, pc, reviewList

vars == <<ingredientsDatabase, loadPending, product, social, reviews, last, observed,
          request, openPage,
          userProfile, ingredientDB,
          browsers, pc, reviewList>>

----------------------------------------------------------------------------
(* Bounds and input alphabets *)

MaxPriceLen == 3

PriceAlphabet == {"1", "9", ",", ".", "N"}

----------------------------------------------------------------------------
(* JavaScript primitives used by the engine *)

NaN == -1

Digits == {"0", "1", "2", "3", "4", "5", "6", "7", "8", "9"}

UpperCase == <<"A","B","C","D","E","F","G","H","I","J","K","L","M","N","O","P","Q","R","S","T","U","V","W","X","Y","Z">>

LowerCase == <<"a","b","c","d","e","f","g","h","i","j","k","l","m","n","o","p","q","r","s","t","u","v","w","x","y","z">>

\* upper-case letter -> lower-case letter
LowerOf ==
  [u \in {UpperCase[i] : i \in 1..26} |->
     LowerCase[CHOOSE i \in 1..26 : UpperCase[i] = u]]

toLowerCaseChar(c) == IF c \in DOMAIN LowerOf THEN LowerOf[c] ELSE c

toLowerCase(s) ==
  IF s = <<>> THEN <<>> ELSE [i \in 1..Len(s) |-> toLowerCaseChar(s[i])]

includes(s, t) ==
  \E i \in 0..(Len(s) - Len(t)) : SubSeq(s, i + 1, i + Len(t)) = t

Min(a, b) == IF a <= b THEN a ELSE b

Max(a, b) == IF a >= b THEN a ELSE b

\* Math.round(n / d) for n >= 0, d > 0: halves round up
MathRound(n, d) == (2 * n + d) \div (2 * d)

\* end of the longest run of characters of cs that starts at position i
\* (i - 1 when s[i] is not in cs)
RunEnd(s, i, cs) ==
  CHOOSE j \in (i - 1)..Len(s) :
    /\ \A k \in i..j : s[k] \in cs
    /\ (j = Len(s) \/ s[j + 1] \notin cs)

RECURSIVE DecimalValue(_)
DecimalValue(ds) ==
  IF ds = <<>> THEN 0
  ELSE 10 * DecimalValue(SubSeq(ds, 1, Len(ds) - 1))
       + (CHOOSE v \in 0..9 : <<"0","1","2","3","4","5","6","7","8","9">>[v + 1] = ds[Len(ds)])

RECURSIVE Pow10(_)
Pow10(n) == IF n = 0 THEN 1 ELSE 10 * Pow10(n - 1)

\* a parsed price: null, NaN, or the rational num / den
Null == [kind |-> "null", num |-> 0, den |-> 1]

NaNNumber == [kind |-> "NaN", num |-> 0, den |-> 1]

\* price.match(/[\d,]+\.?\d*/): the leftmost match, <<>> standing for no match
\* (a match is never empty)
RegexMatch(price) ==
  LET numChars == Digits \cup {","}
      starts   == {i \in 1..Len(price) : price[i] \in numChars}
  IN IF starts = {} THEN <<>>
     ELSE LET st == CHOOSE i \in starts : \A k \in starts : i <= k
              e1 == RunEnd(price, st, numChars)
              e2 == IF e1 < Len(price) /\ price[e1 + 1] = "." THEN e1 + 1 ELSE e1
              e3 == RunEnd(price, e2 + 1, Digits)
          IN SubSeq(price, st, e3)

\* match[0].replace(/,/g, '')
RemoveCommas(s) == SelectSeq(s, LAMBDA c : c # ",")

\* parseFloat on a string of digits with at most one '.'
parseFloat(str) ==
  LET e1      == RunEnd(str, 1, Digits)
      hasDot  == e1 < Len(str) /\ str[e1 + 1] = "."
      e2      == IF hasDot THEN RunEnd(str, e1 + 2, Digits) ELSE e1
      intPart == SubSeq(str, 1, e1)
      frac    == IF hasDot THEN SubSeq(str, e1 + 2, e2) ELSE <<>>
  IN IF intPart = <<>> /\ frac = <<>> THEN NaNNumber
     ELSE [kind |-> "number",
           num  |-> DecimalValue(intPart \o frac),
           den  |-> Pow10(Len(frac))]

extractNumericPrice(price) ==
  LET match == RegexMatch(price)
  IN IF match # <<>> THEN parseFloat(RemoveCommas(match)) ELSE Null

\* price <= k in JavaScript: false when price is NaN
PriceLeq(n, k) == n.kind = "number" /\ n.num <= k * n.den

----------------------------------------------------------------------------
(* The ingredient reference table *)

\* this.ingredientsDatabase before the load completes
NullDatabase ==
  [loaded |-> FALSE, keys |-> {}, beneficial |-> {}, potentially_harmful |-> {}]

getBuiltInIngredientData ==
  [loaded |-> TRUE,
   keys |-> {"beneficial", "potentially_harmful", "common_irritants"},
   beneficial |->
     {<<"n","i","a","c","i","n","a","m","i","d","e">>, <<"h","y","a","l","u","r","o","n","i","c"," ","a","c","i","d">>, <<"v","i","t","a","m","i","n"," ","c">>, <<"r","e","t","i","n","o","l">>, <<"c","e","r","a","m","i","d","e">>,
      <<"g","l","y","c","e","r","i","n">>, <<"s","a","l","i","c","y","l","i","c"," ","a","c","i","d">>, <<"l","a","c","t","i","c"," ","a","c","i","d">>, <<"p","e","p","t","i","d","e","s">>, <<"s","q","u","a","l","a","n","e">>,
      <<"v","i","t","a","m","i","n"," ","e">>, <<"a","l","l","a","n","t","o","i","n">>, <<"p","a","n","t","h","e","n","o","l">>, <<"z","i","n","c"," ","o","x","i","d","e">>, <<"t","i","t","a","n","i","u","m"," ","d","i","o","x","i","d","e">>},
   potentially_harmful |->
     {<<"a","l","c","o","h","o","l"," ","d","e","n","a","t">>, <<"s","o","d","i","u","m"," ","l","a","u","r","y","l"," ","s","u","l","f","a","t","e">>, <<"f","o","r","m","a","l","d","e","h","y","d","e">>, <<"p","a","r","a","b","e","n","s">>,
      <<"p","h","t","h","a","l","a","t","e","s">>, <<"m","i","n","e","r","a","l"," ","o","i","l">>, <<"p","e","t","r","o","l","a","t","u","m">>, <<"a","r","t","i","f","i","c","i","a","l"," ","f","r","a","g","r","a","n","c","e">>}]

\* JSON.parse of data/ingredients.json: an object keyed by ingredient name,
\* each entry {issue, severity}; it has no 'beneficial' and no
\* 'potentially_harmful' property
IngredientsJson ==
  [loaded |-> TRUE,
   keys |-> {"fragrance", "alcohol denat", "coconut oil", "parabens"},
   beneficial |-> {}, potentially_harmful |-> {}]

\* this.ingredientsDatabase.beneficial.some(...) on a table without that
\* property: TypeError as soon as filter visits the first ingredient
LookupThrows(db, ingredients) ==
  db.loaded /\ "beneficial" \notin db.keys /\ ingredients # <<>>

findBeneficialIngredients(db, ingredients) ==
  IF ~db.loaded THEN <<>>
  ELSE SelectSeq(ingredients,
         LAMBDA ingredient :
           \E beneficial \in db.beneficial :
             includes(toLowerCase(ingredient), toLowerCase(beneficial)))

findHarmfulIngredients(db, ingredients) ==
  IF ~db.loaded THEN <<>>
  ELSE SelectSeq(ingredients,
         LAMBDA ingredient :
           \E harmful \in db.potentially_harmful :
             includes(toLowerCase(ingredient), toLowerCase(harmful)))

----------------------------------------------------------------------------
(* Leaf analyzers *)

assessPriceReasonableness(price) ==
  LET numericPrice == extractNumericPrice(price)
  IN IF numericPrice = Null THEN 50
     ELSE IF PriceLeq(numericPrice, 15) THEN 95
     ELSE IF PriceLeq(numericPrice, 30) THEN 85
     ELSE IF PriceLeq(numericPrice, 60) THEN 70
     ELSE IF PriceLeq(numericPrice, 100) THEN 50
     ELSE 30

wellKnownBrands ==
  {<<"c","e","r","a","v","e">>, <<"t","h","e"," ","o","r","d","i","n","a","r","y">>, <<"n","e","u","t","r","o","g","e","n","a">>, <<"o","l","a","y">>, <<"c","l","i","n","i","q","u","e">>, <<"l","'","o","r","e","a","l">>,
   <<"n","i","v","e","a">>, <<"a","v","e","e","n","o">>, <<"e","u","c","e","r","i","n">>, <<"l","a"," ","r","o","c","h","e"," ","p","o","s","a","y">>, <<"v","i","c","h","y">>, <<"s","k","i","n","c","e","u","t","i","c","a","l","s">>,
   <<"d","r","u","n","k"," ","e","l","e","p","h","a","n","t">>, <<"p","a","u","l","a","'","s"," ","c","h","o","i","c","e">>, <<"c","o","s","r","x">>, <<"i","n","n","i","s","f","r","e","e">>, <<"l","a","n","e","i","g","e">>}

analyzeProduct_Internal(productData) ==
  [product_name |-> productData.name,
   platform |-> productData.platform,
   availability_score |->
     IF productData.platform = "amazon" THEN 90
     ELSE IF productData.platform = "sephora" THEN 85
     ELSE IF productData.platform = "oliveyoung" THEN 70
     ELSE IF productData.platform = "yesstyle" THEN 65
     ELSE 50,
   brand_recognition |->
     IF \E brand \in wellKnownBrands : includes(toLowerCase(productData.name), brand)
     THEN "well_known" ELSE "unknown",
   price_reasonableness |-> assessPriceReasonableness(productData.price)]

\* calculateHashtagAuthenticity without the early return for an empty list
calculateHashtagAuthenticity_NoEmptyCase(hashtags) ==
  LET spammy  == {<<"a","d">>, <<"s","p","o","n","s","o","r","e","d">>, <<"p","r","o","m","o">>, <<"a","f","f","i","l","i","a","t","e">>, <<"l","i","n","k","i","n","b","i","o">>}
      organic == {<<"s","k","i","n","c","a","r","e">>, <<"b","e","a","u","t","y">>, <<"s","e","l","f","c","a","r","e">>, <<"r","o","u","t","i","n","e">>, <<"r","e","v","i","e","w">>}
      spammyCount  == Len(SelectSeq(hashtags,
                        LAMBDA tag : \E spam \in spammy : includes(toLowerCase(tag), spam)))
      organicCount == Len(SelectSeq(hashtags,
                        LAMBDA tag : \E org \in organic : includes(toLowerCase(tag), org)))
  IN IF spammyCount > organicCount THEN 30
     ELSE IF organicCount > spammyCount THEN 85
     ELSE 60

calculateHashtagAuthenticity(hashtags) ==
  IF Len(hashtags) = 0 THEN 75
  ELSE LET spammy  == {<<"a","d">>, <<"s","p","o","n","s","o","r","e","d">>, <<"p","r","o","m","o">>, <<"a","f","f","i","l","i","a","t","e">>, <<"l","i","n","k","i","n","b","i","o">>}
           organic == {<<"s","k","i","n","c","a","r","e">>, <<"b","e","a","u","t","y">>, <<"s","e","l","f","c","a","r","e">>, <<"r","o","u","t","i","n","e">>, <<"r","e","v","i","e","w">>}
           spammyCount  == Len(SelectSeq(hashtags,
                             LAMBDA tag : \E spam \in spammy : includes(toLowerCase(tag), spam)))
           organicCount == Len(SelectSeq(hashtags,
                             LAMBDA tag : \E org \in organic : includes(toLowerCase(tag), org)))
       IN IF spammyCount > organicCount THEN 30
          ELSE IF organicCount > spammyCount THEN 85
          ELSE 60

\* likes and views are number | null: <<>> is null, <<n>> the number n
assessInfluencerCredibility(socialData) ==
  IF socialData.likes # <<>> /\ socialData.likes # <<0>>
     /\ socialData.views # <<>> /\ socialData.views # <<0>>
  THEN IF 100 * socialData.likes[1] > 5 * socialData.views[1] THEN "high"
       ELSE IF 100 * socialData.likes[1] > 2 * socialData.views[1] THEN "medium"
       ELSE "low"
  ELSE "unknown"

\* calculateSponsoredProbability without the cap at 100
calculateSponsoredProbability_Uncapped(socialData) ==
  LET sponsoredHashtags ==
        SelectSeq(socialData.hashtags,
          LAMBDA tag : toLowerCase(tag) \in
            {<<"a","d">>, <<"s","p","o","n","s","o","r","e","d">>, <<"p","r","o","m","o">>, <<"a","f","f","i","l","i","a","t","e">>, <<"g","i","f","t","e","d">>})
  IN (IF socialData.paid_promotion_detected THEN 40 ELSE 0)
     + (IF Len(socialData.affiliate_codes) > 0 THEN 30 ELSE 0)
     + (IF Len(socialData.promotional_keywords) > 0 THEN 20 ELSE 0)
     + Len(sponsoredHashtags) * 10

calculateSponsoredProbability(socialData) ==
  LET sponsoredHashtags ==
        SelectSeq(socialData.hashtags,
          LAMBDA tag : toLowerCase(tag) \in
            {<<"a","d">>, <<"s","p","o","n","s","o","r","e","d">>, <<"p","r","o","m","o">>, <<"a","f","f","i","l","i","a","t","e">>, <<"g","i","f","t","e","d">>})
      probability ==
        (IF socialData.paid_promotion_detected THEN 40 ELSE 0)
        + (IF Len(socialData.affiliate_codes) > 0 THEN 30 ELSE 0)
        + (IF Len(socialData.promotional_keywords) > 0 THEN 20 ELSE 0)
        + Len(sponsoredHashtags) * 10
  IN Min(100, probability)

\* analyzeSocialMedia reporting social data even when none was passed
analyzeSocialMedia_AbsentAsData(socialData) ==
  [has_social_data |-> TRUE,
   promotional_detected |-> socialData.paid_promotion_detected,
   affiliate_codes_found |-> Len(socialData.affiliate_codes),
   hashtag_authenticity |-> calculateHashtagAuthenticity(socialData.hashtags),
   influencer_credibility |-> assessInfluencerCredibility(socialData),
   sponsored_content_probability |-> calculateSponsoredProbability(socialData)]

analyzeSocialMedia(socialData) ==
  IF ~socialData.present
  THEN [has_social_data |-> FALSE,
        promotional_detected |-> FALSE,
        affiliate_codes_found |-> 0,
        hashtag_authenticity |-> 50,
        influencer_credibility |-> "unknown",
        sponsored_content_probability |-> 0]
  ELSE [has_social_data |-> TRUE,
        promotional_detected |-> socialData.paid_promotion_detected,
        affiliate_codes_found |-> Len(socialData.affiliate_codes),
        hashtag_authenticity |-> calculateHashtagAuthenticity(socialData.hashtags),
        influencer_credibility |-> assessInfluencerCredibility(socialData),
        sponsored_content_probability |-> calculateSponsoredProbability(socialData)]

\* calculateIngredientQualityScore without the clamp to 0..100
calculateIngredientQualityScore_Unclamped(beneficial, harmful, total) ==
  IF total = 0 THEN 0
  ELSE LET bonus == IF beneficial > 0 /\ harmful = 0 THEN 10 ELSE 0
           scoreTimesTotal == beneficial * 70 + (total - harmful) * 30 + bonus * total
       IN MathRound(scoreTimesTotal, total)

calculateIngredientQualityScore(beneficial, harmful, total) ==
  IF total = 0 THEN 0
  ELSE LET bonus == IF beneficial > 0 /\ harmful = 0 THEN 10 ELSE 0
           \* score = scoreTimesTotal / total
           scoreTimesTotal == beneficial * 70 + (total - harmful) * 30 + bonus * total
       IN MathRound(Max(0, Min(100 * total, scoreTimesTotal)), total)

\* calculateIngredientAuthenticity without the +10 for a first ingredient
\* water / aqua
calculateIngredientAuthenticity_NoWaterBonus(ingredients) ==
  LET lengthBonus == IF Len(ingredients.parsed) >= 5 /\ Len(ingredients.parsed) <= 50
                     THEN 10 ELSE 0
      hasPreservatives ==
        \E i \in 1..Len(ingredients.parsed) :
          toLowerCase(ingredients.parsed[i]) \in
            {<<"p","h","e","n","o","x","y","e","t","h","a","n","o","l">>, <<"e","t","h","y","l","h","e","x","y","l","g","l","y","c","e","r","i","n">>, <<"b","e","n","z","y","l"," ","a","l","c","o","h","o","l">>}
      score == 75 + lengthBonus + (IF hasPreservatives THEN 5 ELSE 0)
  IN Max(0, Min(100, score))

calculateIngredientAuthenticity(ingredients) ==
  LET lengthBonus == IF Len(ingredients.parsed) >= 5 /\ Len(ingredients.parsed) <= 50
                     THEN 10 ELSE 0
      waterBonus  == IF Len(ingredients.parsed) > 0
                        /\ ingredients.parsed[1] # <<>>
                        /\ toLowerCase(ingredients.parsed[1]) \in {<<"w","a","t","e","r">>, <<"a","q","u","a">>}
                     THEN 10 ELSE 0
      hasPreservatives ==
        \E i \in 1..Len(ingredients.parsed) :
          toLowerCase(ingredients.parsed[i]) \in
            {<<"p","h","e","n","o","x","y","e","t","h","a","n","o","l">>, <<"e","t","h","y","l","h","e","x","y","l","g","l","y","c","e","r","i","n">>, <<"b","e","n","z","y","l"," ","a","l","c","o","h","o","l">>}
      score == 75 + lengthBonus + waterBonus + (IF hasPreservatives THEN 5 ELSE 0)
  IN Max(0, Min(100, score))

\* analyzeIngredients when the table lookup does not throw
analyzeIngredients(db, ingredients) ==
  IF Len(ingredients.parsed) = 0
  THEN [total_ingredients |-> 0,
        beneficial_ingredients |-> <<>>,
        potentially_harmful |-> <<>>,
        ingredient_quality_score |-> 0,
        ingredient_authenticity |-> 50]
  ELSE LET beneficial == findBeneficialIngredients(db, ingredients.parsed)
           harmful    == findHarmfulIngredients(db, ingredients.parsed)
       IN [total_ingredients |-> Len(ingredients.parsed),
           beneficial_ingredients |-> beneficial,
           potentially_harmful |-> harmful,
           ingredient_quality_score |->
             calculateIngredientQualityScore(Len(beneficial), Len(harmful),
                                             Len(ingredients.parsed)),
           ingredient_authenticity |-> calculateIngredientAuthenticity(ingredients)]

\* calculateReviewAuthenticity without the early return for a zero total:
\* both ratios taken as 0
calculateReviewAuthenticity_NoZeroCase(sentimentBreakdown) ==
  LET total == sentimentBreakdown.positive + sentimentBreakdown.negative
               + sentimentBreakdown.neutral
      pos == sentimentBreakdown.positive
      neg == sentimentBreakdown.negative
  IN IF total = 0 THEN 60
     ELSE IF 10 * pos > 9 * total \/ 10 * neg > 8 * total THEN 30
     ELSE IF /\ 10 * pos >= 4 * total /\ 10 * pos <= 8 * total
             /\ 10 * neg >= 1 * total /\ 10 * neg <= 4 * total THEN 85
     ELSE 60

calculateReviewAuthenticity(sentimentBreakdown) ==
  LET total == sentimentBreakdown.positive + sentimentBreakdown.negative
               + sentimentBreakdown.neutral
      pos == sentimentBreakdown.positive
      neg == sentimentBreakdown.negative
  IN IF total = 0 THEN 50
     ELSE IF 10 * pos > 9 * total \/ 10 * neg > 8 * total THEN 30
     ELSE IF /\ 10 * pos >= 4 * total /\ 10 * pos <= 8 * total
             /\ 10 * neg >= 1 * total /\ 10 * neg <= 4 * total THEN 85
     ELSE 60

\* assessReviewCredibility by the review count alone
assessReviewCredibility_CountOnly(reviewSummary, authenticityScore) ==
  IF reviewSummary.total_reviews >= 20 THEN "high"
  ELSE IF reviewSummary.total_reviews >= 5 THEN "medium"
  ELSE "low"

assessReviewCredibility(reviewSummary, authenticityScore) ==
  IF reviewSummary.total_reviews >= 20 /\ authenticityScore >= 70 THEN "high"
  ELSE IF reviewSummary.total_reviews >= 5 /\ authenticityScore >= 50 THEN "medium"
  ELSE "low"

\* analyzeReviews with the absent-input credibility 'unknown' instead of 'low'
analyzeReviews_UnknownCredibility(reviewSummary) ==
  IF ~reviewSummary.present \/ reviewSummary.total_reviews = 0
  THEN [review_count |-> 0,
        sentiment_distribution |->
          [shared |-> FALSE,
           atReturn |-> [positive |-> 0, negative |-> 0, neutral |-> 0]],
        review_authenticity_score |-> 50,
        common_concerns |-> [shared |-> FALSE, atReturn |-> <<>>],
        review_credibility |-> "unknown"]
  ELSE LET authenticityScore ==
             calculateReviewAuthenticity(reviewSummary.sentiment_breakdown)
       IN [review_count |-> reviewSummary.total_reviews,
           sentiment_distribution |->
             [shared |-> TRUE, atReturn |-> reviewSummary.sentiment_breakdown],
           review_authenticity_score |-> authenticityScore,
           common_concerns |->
             [shared |-> TRUE, atReturn |-> reviewSummary.common_negatives],
           review_credibility |->
             assessReviewCredibility(reviewSummary, authenticityScore)]

\* sentiment_distribution and common_concerns are object references: either
\* a literal created by the call (shared = FALSE) or the caller's own
\* reviewSummary.sentiment_breakdown / .common_negatives object (shared =
\* TRUE); atReturn is the content when the call returned
analyzeReviews(reviewSummary) ==
  IF ~reviewSummary.present \/ reviewSummary.total_reviews = 0
  THEN [review_count |-> 0,
        sentiment_distribution |->
          [shared |-> FALSE,
           atReturn |-> [positive |-> 0, negative |-> 0, neutral |-> 0]],
        review_authenticity_score |-> 50,
        common_concerns |-> [shared |-> FALSE, atReturn |-> <<>>],
        review_credibility |-> "low"]
  ELSE LET authenticityScore ==
             calculateReviewAuthenticity(reviewSummary.sentiment_breakdown)
       IN [review_count |-> reviewSummary.total_reviews,
           sentiment_distribution |->
             [shared |-> TRUE, atReturn |-> reviewSummary.sentiment_breakdown],
           review_authenticity_score |-> authenticityScore,
           common_concerns |->
             [shared |-> TRUE, atReturn |-> reviewSummary.common_negatives],
           review_credibility |->
             assessReviewCredibility(reviewSummary, authenticityScore)]

assessValueForMoney(price, ingredientQuality) ==
  \* value = ingredientQuality / (price / 10); NaN and 0/0 compare false,
  \* x/0 with x > 0 is Infinity
  IF price.kind # "number" THEN "poor"
  ELSE IF price.num = 0 THEN (IF ingredientQuality > 0 THEN "excellent" ELSE "poor")
  ELSE IF 10 * ingredientQuality * price.den >= 8 * price.num THEN "excellent"
  ELSE IF 10 * ingredientQuality * price.den >= 6 * price.num THEN "good"
  ELSE IF 10 * ingredientQuality * price.den >= 4 * price.num THEN "fair"
  ELSE "poor"

\* compareToMarket on the thresholds of getPriceRange (15 / 30 / 60 / 100)
compareToMarket_SharedTiers(price) ==
  IF PriceLeq(price, 15) THEN "below_market"
  ELSE IF PriceLeq(price, 30) THEN "market_rate"
  ELSE IF PriceLeq(price, 100) THEN "above_market"
  ELSE "premium"

compareToMarket(price) ==
  IF PriceLeq(price, 20) THEN "below_market"
  ELSE IF PriceLeq(price, 50) THEN "market_rate"
  ELSE IF PriceLeq(price, 100) THEN "above_market"
  ELSE "premium"

calculatePriceIngredientRatio(price, qualityScore) ==
  \* Math.max(NaN, 1) is NaN, and NaN passes through min, max and round
  IF price.kind # "number" THEN NaN
  ELSE LET \* actualVsExpected * 100 = n / d
           n == 80 * qualityScore * price.den
           d == Max(price.num, price.den)
       IN MathRound(Max(0, Min(100 * d, n)), d)

getPriceRange(price) ==
  IF PriceLeq(price, 15) THEN <<"B","u","d","g","e","t"," ","(","$","0","-","$","1","5",")">>
  ELSE IF PriceLeq(price, 30) THEN <<"A","f","f","o","r","d","a","b","l","e"," ","(","$","1","5","-","$","3","0",")">>
  ELSE IF PriceLeq(price, 60) THEN <<"M","i","d","-","r","a","n","g","e"," ","(","$","3","0","-","$","6","0",")">>
  ELSE IF PriceLeq(price, 100) THEN <<"P","r","e","m","i","u","m"," ","(","$","6","0","-","$","1","0","0",")">>
  ELSE <<"L","u","x","u","r","y"," ","(","$","1","0","0","+",")">>

analyzePrice(price, ingredientQualityScore) ==
  LET numericPrice == extractNumericPrice(price)
  IN IF numericPrice = Null
     THEN [price_range |-> price,
           value_assessment |-> "unknown",
           price_vs_ingredients |-> 50,
           market_comparison |-> "market_rate"]
     ELSE [price_range |-> getPriceRange(numericPrice),
           value_assessment |-> assessValueForMoney(numericPrice, ingredientQualityScore),
           price_vs_ingredients |->
             calculatePriceIngredientRatio(numericPrice, ingredientQualityScore),
           market_comparison |-> compareToMarket(numericPrice)]

----------------------------------------------------------------------------
(* Orchestrator *)

\* calculateOverallScore with 50 as the neutral social and review score
calculateOverallScore_Neutral50(productA, socialA, ingredientA, reviewA, priceA) ==
  LET productScore2    == productA.availability_score + productA.price_reasonableness
      socialScore2     == IF socialA.has_social_data
                          THEN 100 - socialA.sponsored_content_probability
                               + socialA.hashtag_authenticity
                          ELSE 2 * 50
      ingredientScore2 == ingredientA.ingredient_quality_score
                          + ingredientA.ingredient_authenticity
      reviewScore2     == IF reviewA.review_count > 0
                          THEN 2 * reviewA.review_authenticity_score
                          ELSE 2 * 50
      priceScore2      == 2 * priceA.price_vs_ingredients
      overallTimes200  == productScore2 * 20 + socialScore2 * 30
                          + ingredientScore2 * 25 + reviewScore2 * 15
                          + priceScore2 * 10
  IN IF priceA.price_vs_ingredients = NaN THEN NaN
     ELSE MathRound(Max(0, Min(100 * 200, overallTimes200)), 200)

calculateOverallScore(productA, socialA, ingredientA, reviewA, priceA) ==
  \* every score below is kept as twice its value and every weight as a
  \* percentage, so overallScore = overallTimes200 / 200
  LET productScore2    == productA.availability_score + productA.price_reasonableness
      socialScore2     == IF socialA.has_social_data
                          THEN 100 - socialA.sponsored_content_probability
                               + socialA.hashtag_authenticity
                          ELSE 2 * 75
      ingredientScore2 == ingredientA.ingredient_quality_score
                          + ingredientA.ingredient_authenticity
      reviewScore2     == IF reviewA.review_count > 0
                          THEN 2 * reviewA.review_authenticity_score
                          ELSE 2 * 75
      priceScore2      == 2 * priceA.price_vs_ingredients
      overallTimes200  == productScore2 * 20 + socialScore2 * 30
                          + ingredientScore2 * 25 + reviewScore2 * 15
                          + priceScore2 * 10
  IN IF priceA.price_vs_ingredients = NaN THEN NaN
     ELSE MathRound(Max(0, Min(100 * 200, overallTimes200)), 200)

\* determineVerdict with the score branch tested before the promotion branch
determineVerdict_ScoreFirst(realityScore, socialAnalysis) ==
  [verdict |->
     IF realityScore # NaN /\ realityScore >= 70 THEN "authentic"
     ELSE IF socialAnalysis.promotional_detected
             \/ socialAnalysis.sponsored_content_probability > 70
     THEN "likely_sponsored"
     ELSE "suspicious",
   confidenceLevel |->
     IF socialAnalysis.has_social_data /\ realityScore # NaN /\ realityScore > 80
     THEN "high"
     ELSE IF socialAnalysis.has_social_data \/ (realityScore # NaN /\ realityScore > 60)
     THEN "medium"
     ELSE "low"]

\* determineVerdict with likely_sponsored decided by the flag alone
determineVerdict_FlagOnly(realityScore, socialAnalysis) ==
  [verdict |->
     IF socialAnalysis.promotional_detected THEN "likely_sponsored"
     ELSE IF realityScore # NaN /\ realityScore >= 70 THEN "authentic"
     ELSE "suspicious",
   confidenceLevel |->
     IF socialAnalysis.has_social_data /\ realityScore # NaN /\ realityScore > 80
     THEN "high"
     ELSE IF socialAnalysis.has_social_data \/ (realityScore # NaN /\ realityScore > 60)
     THEN "medium"
     ELSE "low"]

\* determineVerdict with medium confidence needing both social data and a
\* score above 60
determineVerdict_MediumNeedsBoth(realityScore, socialAnalysis) ==
  [verdict |->
     IF socialAnalysis.promotional_detected
        \/ socialAnalysis.sponsored_content_probability > 70
     THEN "likely_sponsored"
     ELSE IF realityScore # NaN /\ realityScore >= 70 THEN "authentic"
     ELSE "suspicious",
   confidenceLevel |->
     IF socialAnalysis.has_social_data /\ realityScore # NaN /\ realityScore > 80
     THEN "high"
     ELSE IF socialAnalysis.has_social_data /\ (realityScore # NaN /\ realityScore > 60)
     THEN "medium"
     ELSE "low"]

\* determineVerdict reading only the probability, not the promotional flag
determineVerdict_ProbabilityOnly(realityScore, socialAnalysis) ==
  [verdict |->
     IF socialAnalysis.sponsored_content_probability > 70
     THEN "likely_sponsored"
     ELSE IF realityScore # NaN /\ realityScore >= 70 THEN "authentic"
     ELSE "suspicious",
   confidenceLevel |->
     IF socialAnalysis.has_social_data /\ realityScore # NaN /\ realityScore > 80
     THEN "high"
     ELSE IF socialAnalysis.has_social_data \/ (realityScore # NaN /\ realityScore > 60)
     THEN "medium"
     ELSE "low"]

determineVerdict(realityScore, socialAnalysis) ==
  \* realityScore >= 70 and realityScore > 80 are false for NaN
  [verdict |->
     IF socialAnalysis.promotional_detected
        \/ socialAnalysis.sponsored_content_probability > 70
     THEN "likely_sponsored"
     ELSE IF realityScore # NaN /\ realityScore >= 70 THEN "authentic"
     ELSE "suspicious",
   confidenceLevel |->
     IF socialAnalysis.has_social_data /\ realityScore # NaN /\ realityScore > 80
     THEN "high"
     ELSE IF socialAnalysis.has_social_data \/ (realityScore # NaN /\ realityScore > 60)
     THEN "medium"
     ELSE "low"]

\* one pushed string: its fixed text, and the interpolated count or list
Insight(text, n, items) == [text |-> text, n |-> n, items |-> items]

\* a rule that pushes its string twice
PushIf_Twice(cond, insight) == IF cond THEN <<insight, insight>> ELSE <<>>

PushIf(cond, insight) == IF cond THEN <<insight>> ELSE <<>>

generateInsights(productA, socialA, ingredientA, reviewA, priceA) ==
  [redFlags |->
        PushIf(socialA.promotional_detected,
               Insight("Sponsored content detected - may be biased promotion", 0, <<>>))
     \o PushIf(socialA.affiliate_codes_found > 0,
               Insight("affiliate codes found - financial incentive present",
                       socialA.affiliate_codes_found, <<>>))
     \o PushIf(Len(ingredientA.potentially_harmful) > 0,
               Insight("Contains potentially irritating ingredients: ", 0,
                       ingredientA.potentially_harmful))
     \o PushIf(reviewA.review_authenticity_score < 50,
               Insight("Review patterns suggest possible fake reviews", 0, <<>>))
     \o PushIf(priceA.value_assessment = "poor",
               Insight("Poor value for money - high price relative to ingredient quality",
                       0, <<>>)),
   greenFlags |->
        PushIf(~socialA.promotional_detected /\ socialA.has_social_data,
               Insight("No promotional content detected - likely genuine recommendation",
                       0, <<>>))
     \o PushIf(Len(ingredientA.beneficial_ingredients) > 0,
               Insight("Contains beneficial ingredients: ", 0,
                       ingredientA.beneficial_ingredients))
     \o PushIf(productA.brand_recognition = "well_known",
               Insight("Product from well-established brand", 0, <<>>))
     \o PushIf(reviewA.review_credibility = "high",
               Insight("Reviews appear authentic and credible", 0, <<>>))
     \o PushIf(priceA.value_assessment \in {"excellent", "good"},
               Insight("Good value for money based on ingredient quality", 0, <<>>)),
   recommendations |->
        PushIf(socialA.promotional_detected,
               Insight("Research product independently before purchasing - sponsored content detected",
                       0, <<>>))
     \o PushIf(Len(ingredientA.potentially_harmful) > 0,
               Insight("Patch test recommended due to potentially irritating ingredients",
                       0, <<>>))
     \o PushIf(reviewA.review_count < 10,
               Insight("Look for more reviews from multiple sources before deciding",
                       0, <<>>))
     \o PushIf(priceA.market_comparison = "premium",
               Insight("Consider if premium price is justified by your specific skincare needs",
                       0, <<>>))]

getDataSources(productData, socialData, reviewSummary) ==
     <<productData.platform>>
  \o (IF socialData.present THEN <<"tiktok">> ELSE <<>>)
  \o (IF reviewSummary.present /\ reviewSummary.total_reviews > 0
      THEN <<"reviews">> ELSE <<>>)

\* the RealityCheckResult of a call that returns
RealityCheckResult(db, productData, socialData, reviewSummary) ==
  LET productAnalysis    == analyzeProduct_Internal(productData)
      socialAnalysis     == analyzeSocialMedia(socialData)
      ingredientAnalysis == analyzeIngredients(db, productData.ingredients)
      reviewAnalysis     == analyzeReviews(reviewSummary)
      priceAnalysis      == analyzePrice(productData.price,
                                         ingredientAnalysis.ingredient_quality_score)
      realityScore       == calculateOverallScore(productAnalysis, socialAnalysis,
                              ingredientAnalysis, reviewAnalysis, priceAnalysis)
      v                  == determineVerdict(realityScore, socialAnalysis)
      insights           == generateInsights(productAnalysis, socialAnalysis,
                              ingredientAnalysis, reviewAnalysis, priceAnalysis)
  IN [reality_score |-> realityScore,
      confidence_level |-> v.confidenceLevel,
      overall_verdict |-> v.verdict,
      product_analysis |-> productAnalysis,
      social_analysis |-> socialAnalysis,
      ingredient_analysis |-> ingredientAnalysis,
      review_analysis |-> reviewAnalysis,
      price_analysis |-> priceAnalysis,
      red_flags |-> insights.redFlags,
      green_flags |-> insights.greenFlags,
      recommendations |-> insights.recommendations,
      data_sources |-> getDataSources(productData, socialData, reviewSummary)]

\* the outcome of analyzeProduct(productData, socialData, reviewSummary) on an
\* engine whose ingredientsDatabase field holds db: the promise rejects
\* (threw) or resolves with a result
analyzeProduct(db, productData, socialData, reviewSummary) ==
  IF LookupThrows(db, productData.ingredients.parsed)
  THEN [threw |-> TRUE, result |-> [error |-> "TypeError"]]
  ELSE [threw |-> FALSE,
        result |-> RealityCheckResult(db, productData, socialData, reviewSummary)]

----------------------------------------------------------------------------
(* Inputs: the records the caller owns and passes to analyzeProduct *)

RECURSIVE StringsOfLen(_, _)
StringsOfLen(alphabet, n) ==
  IF n = 0 THEN {<<>>}
  ELSE {Append(s, c) : s \in StringsOfLen(alphabet, n - 1), c \in alphabet}

StringsUpTo(alphabet, n) == UNION {StringsOfLen(alphabet, k) : k \in 0..n}

\* (platform, product name) of the listings analysed
Listings ==
  {<<"amazon", <<"C","e","r","a","V","e"," ","L","o","t","i","o","n">>>>, <<"sephora", <<"G","l","o","w"," ","G","e","l">>>>,
   <<"oliveyoung", <<"C","O","S","R","X"," ","S","n","a","i","l"," ","E","s","s","e","n","c","e">>>>, <<"yesstyle", <<"G","l","o","w"," ","G","e","l">>>>,
   <<"generic", <<"G","l","o","w"," ","G","e","l">>>>}

PriceTexts ==
  {<<"$","1","4",".","9","9">>, <<"1",",","2","9","9",".","5","0">>, <<"P","r","i","c","e"," ","N","o","t"," ","A","v","a","i","l","a","b","l","e">>, <<"N","/","A",","," ","T","B","D">>}

IngredientLists ==
  {<<>>,
   <<<<"W","a","t","e","r">>, <<"N","i","a","c","i","n","a","m","i","d","e">>, <<"G","l","y","c","e","r","i","n">>>>,
   <<<<"A","q","u","a">>, <<"G","l","y","c","e","r","i","n">>, <<"M","i","n","e","r","a","l"," ","O","i","l">>, <<"P","a","r","a","b","e","n","s">>, <<"P","h","e","n","o","x","y","e","t","h","a","n","o","l">>>>}

Products ==
  {[name |-> l[2], platform |-> l[1], price |-> pr,
    ingredients |-> [raw |-> "", parsed |-> ing]] :
     l \in Listings, pr \in PriceTexts, ing \in IngredientLists}

NoSocial ==
  [present |-> FALSE, hashtags |-> <<>>, likes |-> <<>>, views |-> <<>>,
   affiliate_codes |-> <<>>, promotional_keywords |-> <<>>,
   paid_promotion_detected |-> FALSE]

HashtagLists ==
  {<<>>,
   <<<<"a","d">>, <<"s","p","o","n","s","o","r","e","d">>, <<"s","k","i","n","c","a","r","e">>>>,
   <<<<"s","k","i","n","c","a","r","e">>, <<"r","o","u","t","i","n","e">>, <<"g","i","f","t","e","d">>>>,
   <<<<"b","e","a","u","t","y","a","d","d","i","c","t">>, <<"p","r","o","m","o">>, <<"a","f","f","i","l","i","a","t","e">>>>}

\* (paid_promotion_detected, affiliate_codes, promotional_keywords)
PromotionSignals ==
  {<<FALSE, <<>>, <<>>>>, <<TRUE, <<>>, <<>>>>,
   <<FALSE, <<"GLOW20">>, <<"link in bio">>>>,
   <<TRUE, <<"GLOW20">>, <<"link in bio">>>>}

Socials ==
  {NoSocial} \cup
  {[present |-> TRUE, hashtags |-> h,
    likes |-> IF h = <<>> THEN <<>> ELSE <<2543>>,
    views |-> IF h = <<>> THEN <<>> ELSE <<45231>>,
    affiliate_codes |-> p[2], promotional_keywords |-> p[3],
    paid_promotion_detected |-> p[1]] :
     h \in HashtagLists, p \in PromotionSignals}

NoReviews ==
  [present |-> FALSE, total_reviews |-> 0,
   sentiment_breakdown |-> [positive |-> 0, negative |-> 0, neutral |-> 0],
   common_negatives |-> <<>>]

Reviews ==
  {NoReviews,
   [present |-> TRUE, total_reviews |-> 156,
    sentiment_breakdown |-> [positive |-> 89, negative |-> 23, neutral |-> 44],
    common_negatives |-> <<"sticky feeling", "broke out">>],
   [present |-> TRUE, total_reviews |-> 87,
    sentiment_breakdown |-> [positive |-> 84, negative |-> 2, neutral |-> 1],
    common_negatives |-> <<"none">>],
   [present |-> TRUE, total_reviews |-> 0,
    sentiment_breakdown |-> [positive |-> 0, negative |-> 0, neutral |-> 0],
    common_negatives |-> <<>>]}

----------------------------------------------------------------------------
(* State machine: one engine instance and its caller *)

NoCall == [called |-> FALSE]

\* productUrl omitted (undefined)
NoUrl == <<>>

\* no scrape requested: the engine is used on records already collected
NoRequest == [url |-> NoUrl, productUrl |-> NoUrl]

NoPage == [outcomes |-> <<>>, visited |-> <<>>]

\* the command-line analyser has read no profile
NoProfile == [skin_type |-> "normal", concerns |-> <<>>]

\* the command-line module, and with it data/ingredients.json, is not imported
NoReferenceTable == <<>>

\* no browser has been launched
NoBrowsers == <<>>

\* no command is running
Idle == [fn |-> "none", stage |-> "none", at |-> "idle", threw |-> FALSE]

\* new RealityCheckEngine(): the constructor starts loadIngredientsDatabase
\* and returns without awaiting it
Init ==
  /\ ingredientsDatabase = NullDatabase
  /\ loadPending = TRUE
  /\ product \in Products
  /\ social \in Socials
  /\ reviews \in Reviews
  /\ last = NoCall
  /\ observed = {}
  /\ request = NoRequest
  /\ openPage = NoPage
  /\ userProfile = NoProfile
  /\ ingredientDB = NoReferenceTable
  /\ browsers = NoBrowsers
  /\ pc = Idle
  /\ reviewList = <<>>

\* loadIngredientsDatabase: readFile and JSON.parse succeed
LoadFromFile ==
  /\ loadPending
  /\ ingredientsDatabase' = IngredientsJson
  /\ loadPending' = FALSE
  /\ UNCHANGED <<product, social, reviews, last, observed,
               request, openPage,
               userProfile, ingredientDB,
               browsers, pc, reviewList>>

\* loadIngredientsDatabase: readFile or JSON.parse throws
LoadFallback ==
  /\ loadPending
  /\ ingredientsDatabase' = getBuiltInIngredientData
  /\ loadPending' = FALSE
  /\ UNCHANGED <<product, social, reviews, last, observed,
               request, openPage,
               userProfile, ingredientDB,
               browsers, pc, reviewList>>

\* engine.analyzeProduct(product, social, reviews); the body has no await,
\* so it runs to completion within the call
AnalyzeProduct ==
  /\ last' = [called |-> TRUE,
              op |-> "analyzeProduct",
              table |-> ingredientsDatabase,
              args |-> <<product, social, reviews>>,
              outcome |-> analyzeProduct(ingredientsDatabase, product, social, reviews)]
  /\ observed' = IF Len(product.ingredients.parsed) > 0
                 THEN observed \cup {ingredientsDatabase}
                 ELSE observed
  /\ UNCHANGED <<ingredientsDatabase, loadPending, product, social, reviews,
               request, openPage,
               userProfile, ingredientDB,
               browsers, pc, reviewList>>

\* the caller has not changed its records since the last call returned
Untouched == last.called /\ last.op = "analyzeProduct"
             /\ last.args = <<product, social, reviews>>

\* caller, after the call returned: reviews.sentiment_breakdown.positive = 0
MutateSentiment ==
  /\ Untouched
  /\ reviews.present /\ reviews.sentiment_breakdown.positive > 0
  /\ reviews' = [reviews EXCEPT !.sentiment_breakdown.positive = 0]
  /\ UNCHANGED <<ingredientsDatabase, loadPending, product, social, last, observed,
               request, openPage,
               userProfile, ingredientDB,
               browsers, pc, reviewList>>

\* caller, after the call returned: reviews.common_negatives.length = 0
MutateConcerns ==
  /\ Untouched
  /\ reviews.present /\ reviews.common_negatives # <<>>
  /\ reviews' = [reviews EXCEPT !.common_negatives = <<>>]
  /\ UNCHANGED <<ingredientsDatabase, loadPending, product, social, last, observed,
               request, openPage,
               userProfile, ingredientDB,
               browsers, pc, reviewList>>

\* caller, after the call returned: product.ingredients.parsed.length = 0
MutateIngredients ==
  /\ Untouched
  /\ product.ingredients.parsed # <<>>
  /\ product' = [product EXCEPT !.ingredients.parsed = <<>>]
  /\ UNCHANGED <<ingredientsDatabase, loadPending, social, reviews, last, observed,
               request, openPage,
               userProfile, ingredientDB,
               browsers, pc, reviewList>>

Next ==
  \/ LoadFromFile
  \/ LoadFallback
  \/ AnalyzeProduct

Spec == Init /\ [][Next]_vars

\* the caller goes on to change its own records after a call has returned
CallerProducts == {p \in Products : p.platform = "amazon" /\ p.price = <<"$","1","4",".","9","9">>}

InitCaller ==
  /\ ingredientsDatabase = NullDatabase
  /\ loadPending = TRUE
  /\ product \in CallerProducts
  /\ social = NoSocial
  /\ reviews \in Reviews
  /\ last = NoCall
  /\ observed = {}
  /\ request = NoRequest
  /\ openPage = NoPage
  /\ userProfile = NoProfile
  /\ ingredientDB = NoReferenceTable
  /\ browsers = NoBrowsers
  /\ pc = Idle
  /\ reviewList = <<>>

NextCaller ==
  \/ LoadFromFile
  \/ LoadFallback
  \/ AnalyzeProduct
  \/ MutateSentiment
  \/ MutateConcerns
  \/ MutateIngredients

SpecCaller == InitCaller /\ [][NextCaller]_vars

\* analyzePrice applied to every short price text and a range of ingredient
\* quality scores
PriceProbes ==
  {[name |-> <<"G","l","o","w"," ","G","e","l">>, platform |-> "generic", price |-> pr,
    ingredients |-> [raw |-> "", parsed |-> <<>>]] :
     pr \in StringsUpTo(PriceAlphabet, MaxPriceLen)}

InitPrice ==
  /\ ingredientsDatabase = NullDatabase
  /\ loadPending = TRUE
  /\ product \in PriceProbes
  /\ social = NoSocial
  /\ reviews = NoReviews
  /\ last = NoCall
  /\ observed = {}
  /\ request = NoRequest
  /\ openPage = NoPage
  /\ userProfile = NoProfile
  /\ ingredientDB = NoReferenceTable
  /\ browsers = NoBrowsers
  /\ pc = Idle
  /\ reviewList = <<>>

AnalyzePrice ==
  /\ \E q \in {0, 30, 77, 87, 100} :
       last' = [called |-> TRUE,
                op |-> "analyzePrice",
                table |-> ingredientsDatabase,
                args |-> <<product.price, q>>,
                outcome |-> [threw |-> FALSE,
                             result |-> analyzePrice(product.price, q)]]
  /\ UNCHANGED <<ingredientsDatabase, loadPending, product, social, reviews, observed,
               request, openPage,
               userProfile, ingredientDB,
               browsers, pc, reviewList>>

SpecPrice == InitPrice /\ [][AnalyzePrice]_vars

\* analyzeProduct(product) alone, over lists of distinct ingredients
MaxIngredients == 5

IngredientVocabulary ==
  {<<"w","a","t","e","r">>, <<"A","q","u","a">>, <<"n","i","a","c","i","n","a","m","i","d","e">>, <<"g","l","y","c","e","r","i","n">>, <<"m","i","n","e","r","a","l"," ","o","i","l">>, <<"p","h","e","n","o","x","y","e","t","h","a","n","o","l">>}

\* the sequences of n distinct members of vocabulary
RECURSIVE DistinctListsOfLen(_, _)
DistinctListsOfLen(vocabulary, n) ==
  IF n = 0 THEN {<<>>}
  ELSE UNION {{Append(s, c) : c \in vocabulary \ {s[i] : i \in 1..Len(s)}} :
                s \in DistinctListsOfLen(vocabulary, n - 1)}

DistinctListsUpTo(vocabulary, n) ==
  UNION {DistinctListsOfLen(vocabulary, k) : k \in 0..n}

IngredientProbes ==
  {[name |-> <<"G","l","o","w"," ","G","e","l">>, platform |-> "generic", price |-> <<"$","1","5">>,
    ingredients |-> [raw |-> "", parsed |-> ing]] :
     ing \in DistinctListsUpTo(IngredientVocabulary, MaxIngredients)}

InitIngredient ==
  /\ ingredientsDatabase = NullDatabase
  /\ loadPending = TRUE
  /\ product \in IngredientProbes
  /\ social = NoSocial
  /\ reviews = NoReviews
  /\ last = NoCall
  /\ observed = {}
  /\ request = NoRequest
  /\ openPage = NoPage
  /\ userProfile = NoProfile
  /\ ingredientDB = NoReferenceTable
  /\ browsers = NoBrowsers
  /\ pc = Idle
  /\ reviewList = <<>>

SpecIngredient == InitIngredient /\ [][Next]_vars

\* analyzeProduct(product, social, reviews) over social records: every list
\* of distinct hashtags, every combination of the promotion signals
MaxHashtags == 3

HashtagVocabulary ==
  {<<"a","d">>, <<"s","p","o","n","s","o","r","e","d">>, <<"g","i","f","t","e","d">>, <<"s","k","i","n","c","a","r","e">>, <<"b","e","a","u","t","y","a","d","d","i","c","t">>}

SocialProbes ==
  {NoSocial} \cup
  {[present |-> TRUE, hashtags |-> h, likes |-> <<2543>>, views |-> <<45231>>,
    affiliate_codes |-> a, promotional_keywords |-> k,
    paid_promotion_detected |-> f] :
     h \in DistinctListsUpTo(HashtagVocabulary, MaxHashtags),
     a \in {<<>>, <<"GLOW20">>}, k \in {<<>>, <<"link in bio">>}, f \in BOOLEAN}

\* (product, reviews) the social record comes with: a listing that scores
\* high, one that scores low, one whose price text parses to NaN
SocialProbeCases ==
  {<<[name |-> <<"C","e","r","a","V","e"," ","L","o","t","i","o","n">>, platform |-> "amazon", price |-> <<"$","1","4",".","9","9">>,
      ingredients |-> [raw |-> "",
                       parsed |-> <<<<"W","a","t","e","r">>, <<"N","i","a","c","i","n","a","m","i","d","e">>, <<"G","l","y","c","e","r","i","n">>>>]],
     [present |-> TRUE, total_reviews |-> 156,
      sentiment_breakdown |-> [positive |-> 89, negative |-> 23, neutral |-> 44],
      common_negatives |-> <<"sticky feeling", "broke out">>]>>,
   <<[name |-> <<"G","l","o","w"," ","G","e","l">>, platform |-> "generic", price |-> <<"1",",","2","9","9",".","5","0">>,
      ingredients |-> [raw |-> "", parsed |-> <<>>]],
     NoReviews>>,
   <<[name |-> <<"G","l","o","w"," ","G","e","l">>, platform |-> "sephora", price |-> <<"N","/","A",","," ","T","B","D">>,
      ingredients |-> [raw |-> "", parsed |-> <<>>]],
     [present |-> TRUE, total_reviews |-> 87,
      sentiment_breakdown |-> [positive |-> 84, negative |-> 2, neutral |-> 1],
      common_negatives |-> <<"none">>]>>}

InitSocial ==
  /\ ingredientsDatabase = NullDatabase
  /\ loadPending = TRUE
  /\ \E c \in SocialProbeCases : product = c[1] /\ reviews = c[2]
  /\ social \in SocialProbes
  /\ last = NoCall
  /\ observed = {}
  /\ request = NoRequest
  /\ openPage = NoPage
  /\ userProfile = NoProfile
  /\ ingredientDB = NoReferenceTable
  /\ browsers = NoBrowsers
  /\ pc = Idle
  /\ reviewList = <<>>

SpecSocial == InitSocial /\ [][Next]_vars

\* analyzeProduct(product, undefined, reviews) over review summaries: every
\* sentiment breakdown with counts up to MaxSentiment under a range of
\* total_reviews, and the two summaries of the test suite
MaxSentiment == 5

ReviewProbes ==
  Reviews \cup
  {[present |-> TRUE, total_reviews |-> n,
    sentiment_breakdown |-> [positive |-> p, negative |-> g, neutral |-> u],
    common_negatives |-> <<>>] :
     n \in {0, 4, 5, 19, 20}, p \in 0..MaxSentiment, g \in 0..MaxSentiment,
     u \in 0..MaxSentiment}

InitReviews ==
  /\ ingredientsDatabase = NullDatabase
  /\ loadPending = TRUE
  /\ product = [name |-> <<"G","l","o","w"," ","G","e","l">>, platform |-> "generic", price |-> <<"$","1","5">>,
                ingredients |-> [raw |-> "", parsed |-> <<>>]]
  /\ social = NoSocial
  /\ reviews \in ReviewProbes
  /\ last = NoCall
  /\ observed = {}
  /\ request = NoRequest
  /\ openPage = NoPage
  /\ userProfile = NoProfile
  /\ ingredientDB = NoReferenceTable
  /\ browsers = NoBrowsers
  /\ pc = Idle
  /\ reviewList = <<>>

SpecReviews == InitReviews /\ [][Next]_vars

----------------------------------------------------------------------------
(* scrapeProduct: the router over the platform scrapers *)

\* the four Hangul letters of the OliveYoung keyword, one token per letter
OliveYoungHangul == <<"U+C62C", "U+B9AC", "U+BE0C", "U+C601">>

detectPlatform(url) ==
  LET urlLower == toLowerCase(url)
  IN IF includes(urlLower, <<"t","i","k","t","o","k",".","c","o","m">>) \/ includes(urlLower, <<"v","m",".","t","i","k","t","o","k",".","c","o","m">>)
     THEN [type |-> "social", platform |-> "tiktok"]
     ELSE IF includes(urlLower, <<"i","n","s","t","a","g","r","a","m",".","c","o","m">>)
     THEN [type |-> "social", platform |-> "instagram"]
     ELSE IF includes(urlLower, <<"y","o","u","t","u","b","e",".","c","o","m">>) \/ includes(urlLower, <<"y","o","u","t","u",".","b","e">>)
     THEN [type |-> "social", platform |-> "youtube"]
     ELSE IF includes(urlLower, <<"o","l","i","v","e","y","o","u","n","g",".">>) \/ includes(urlLower, OliveYoungHangul)
     THEN [type |-> "product", platform |-> "oliveyoung"]
     ELSE IF includes(urlLower, <<"a","m","a","z","o","n",".">>)
     THEN [type |-> "product", platform |-> "amazon"]
     ELSE IF includes(urlLower, <<"y","e","s","s","t","y","l","e",".">>)
     THEN [type |-> "product", platform |-> "yesstyle"]
     ELSE IF includes(urlLower, <<"s","e","p","h","o","r","a",".">>)
     THEN [type |-> "product", platform |-> "sephora"]
     ELSE IF includes(urlLower, <<"u","l","t","a",".">>)
     THEN [type |-> "product", platform |-> "ulta"]
     ELSE IF includes(urlLower, <<"s","t","y","l","e","v","a","n","a",".">>)
     THEN [type |-> "product", platform |-> "stylevana"]
     ELSE [type |-> "unknown", platform |-> "generic"]

\* A page is the browser's view of the network during one run: outcomes
\* tells how each scraper's navigation and extraction ends, visited lists
\* the scraper calls made so far.  A call resolves with a value or rejects
\* with an error, and leaves the page it used.
Visit(page, scraper, url) ==
  [page EXCEPT !.visited = Append(@, [scraper |-> scraper, url |-> url])]

Resolved(value, page) == [threw |-> FALSE, value |-> value, page |-> page]

Rejected(error, page) == [threw |-> TRUE, value |-> error, page |-> page]

\* rating is string | null: <<>> is null
EmptyIngredients == [raw |-> "", parsed |-> <<>>]

ListedIngredients == [raw |-> "water, glycerin", parsed |-> <<"water", "glycerin">>]

\* catch (error) { throw new Error(`Failed to scrape Amazon product: ...`) };
\* call is the position of the failed scraper call in page.visited
scrapeAmazon(page, url) ==
  LET visitedPage == Visit(page, "amazon", url)
  IN CASE page.outcomes.amazon = "throw" ->
            Rejected([message |-> "Failed to scrape Amazon product",
                      call |-> Len(visitedPage.visited)], visitedPage)
       [] page.outcomes.amazon = "full" ->
            Resolved([name |-> "Glow Gel", price |-> "$15", rating |-> <<"4.5">>,
                      reviews |-> <<"love it">>, ingredients |-> ListedIngredients],
                     visitedPage)
       [] page.outcomes.amazon = "sparse" ->
            Resolved([name |-> "Unknown", price |-> "Unknown", rating |-> <<>>,
                      reviews |-> <<>>, ingredients |-> EmptyIngredients],
                     visitedPage)

scrapeYesStyle(page, url) ==
  LET visitedPage == Visit(page, "yesstyle", url)
  IN CASE page.outcomes.yesstyle = "throw" ->
            Rejected([message |-> "Failed to scrape YesStyle product",
                      call |-> Len(visitedPage.visited)], visitedPage)
       [] page.outcomes.yesstyle = "full" ->
            Resolved([name |-> "Glow Gel", price |-> "$15", rating |-> <<"4.5">>,
                      reviews |-> <<"love it">>, ingredients |-> ListedIngredients],
                     visitedPage)

\* scrapeOliveYoung(url) launches its own browser: puppeteer.launch may
\* reject (throw), and so may browser.newPage or page.setUserAgent, which run
\* before the try block (stranded); any later failure is caught and gives null
scrapeOliveYoung(page, url) ==
  LET visitedPage == Visit(page, "oliveyoung", url)
  IN CASE page.outcomes.oliveyoung = "throw" ->
            Rejected([message |-> "Failed to launch the browser process",
                      call |-> Len(visitedPage.visited)], visitedPage)
       [] page.outcomes.oliveyoung = "stranded" ->
            Rejected([message |-> "Protocol error (Target.createTarget)",
                      call |-> Len(visitedPage.visited)], visitedPage)
       [] page.outcomes.oliveyoung = "null" ->
            Resolved([isNull |-> TRUE], visitedPage)
       [] page.outcomes.oliveyoung = "data" ->
            Resolved([isNull |-> FALSE,
                      product_name |-> "Snail Essence", brand |-> "COSRX",
                      price_usd |-> "$21.00", stock_status |-> "In Stock",
                      ingredients |-> <<"snail secretion filtrate", "glycerin">>,
                      description |-> "N/A"], visitedPage)

\* the TikTokVideoData an unreadable page gives; also the 'basic structure'
\* of the Instagram and YouTube branches
MinimalSocialData(url) ==
  [username |-> "Unknown", caption |-> "", hashtags |-> <<>>, mentions |-> <<>>,
   likes |-> <<>>, views |-> <<>>, comments |-> <<>>, shares |-> <<>>,
   affiliate_codes |-> <<>>, promotional_keywords |-> <<>>,
   paid_promotion_detected |-> FALSE, video_url |-> url, posting_date |-> <<>>]

\* scrapeTikTok catches every error and returns the minimal structure
scrapeTikTok(page, url) ==
  LET visitedPage == Visit(page, "tiktok", url)
  IN IF page.outcomes.tiktok = "scraped"
     THEN Resolved([MinimalSocialData(url) EXCEPT
                      !.username = "glowqueen",
                      !.caption = "#ad use code GLOW20",
                      !.hashtags = <<"ad">>,
                      !.likes = <<2543>>, !.views = <<45231>>,
                      !.affiliate_codes = <<"GLOW20">>,
                      !.paid_promotion_detected = TRUE], visitedPage)
     ELSE Resolved(MinimalSocialData(url), visitedPage)

handleSocialMediaUrl(page, url, platformInfo) ==
  LET scraped ==
        CASE platformInfo.platform = "tiktok" -> scrapeTikTok(page, url)
          [] platformInfo.platform \in {"instagram", "youtube"} ->
               Resolved(MinimalSocialData(url), page)
          [] OTHER ->
               Rejected([message |-> "Unsupported social platform",
                         call |-> Len(page.visited)], page)
  IN IF scraped.threw THEN scraped
     ELSE Resolved([social_data |-> scraped.value, requires_product_url |-> TRUE],
                   scraped.page)

\* what scrapeGeneric returns for a page it could read
GenericListing(outcome) ==
  IF outcome = "found"
  THEN [name |-> "Glow Gel", price |-> "$15", rating |-> <<"4.5">>,
        reviews |-> <<>>, ingredients |-> ListedIngredients,
        platform |-> "generic"]
  ELSE [name |-> "Unknown Product", price |-> "Price Not Available",
        rating |-> <<>>, reviews |-> <<>>, ingredients |-> EmptyIngredients,
        platform |-> "generic"]

\* the number of scrapeGeneric calls one run can make
MaxGenericCalls == 2

\* how many scrapeGeneric calls the page has seen
GenericCalls(page) ==
  Len(SelectSeq(page.visited, LAMBDA v : v.scraper = "generic"))

\* page.goto rejects (catch: throw err) or the selectors run
scrapeGeneric(page, url) ==
  LET attempt == Min(GenericCalls(page) + 1, MaxGenericCalls)
      outcome == page.outcomes.generic[attempt]
      visitedPage == Visit(page, "generic", url)
  IN IF outcome = "throw"
     THEN Rejected([message |-> "net::ERR_NAME_NOT_RESOLVED",
                    call |-> Len(visitedPage.visited)], visitedPage)
     ELSE Resolved(GenericListing(outcome), visitedPage)

\* x || fallback on a string
OrElse(x, fallback) == IF x = "" THEN fallback ELSE x

\* { ...productData, tiktok_data }
WithTikTokData(productData, socialData) ==
  [f \in DOMAIN productData \cup {"tiktok_data"} |->
     IF f = "tiktok_data" THEN socialData ELSE productData[f]]

RECURSIVE scrapeProduct(_, _, _)

\* the try block of scrapeProduct
scrapeProductTry(page, url, productUrl) ==
  LET platformInfo == detectPlatform(url)
  IN IF platformInfo.type = "social"
     THEN LET socialResult == handleSocialMediaUrl(page, url, platformInfo)
          IN IF socialResult.threw THEN socialResult
             ELSE IF productUrl = NoUrl
             THEN Resolved(
                    [name |-> <<"Social Media Post by ",
                                socialResult.value.social_data.username>>,
                     price |-> "N/A", rating |-> <<>>, reviews |-> <<>>,
                     ingredients |-> EmptyIngredients,
                     platform |-> platformInfo.platform,
                     tiktok_data |-> socialResult.value.social_data],
                    socialResult.page)
             ELSE LET productData == scrapeProduct(socialResult.page, productUrl, NoUrl)
                  IN IF productData.threw THEN productData
                     ELSE Resolved(WithTikTokData(productData.value,
                                                  socialResult.value.social_data),
                                   productData.page)
     ELSE LET scraped ==
                CASE platformInfo.platform = "oliveyoung" ->
                       LET oliveYoungData == scrapeOliveYoung(page, url)
                       IN IF oliveYoungData.threw THEN oliveYoungData
                          ELSE IF oliveYoungData.value.isNull
                          THEN Rejected([message |-> "OliveYoung scraper returned null",
                                         call |-> Len(oliveYoungData.page.visited)],
                                        oliveYoungData.page)
                          ELSE Resolved(
                                 [name |-> oliveYoungData.value.product_name,
                                  price |-> oliveYoungData.value.price_usd,
                                  rating |-> <<>>, reviews |-> <<>>,
                                  ingredients |->
                                    [raw |-> [join |-> oliveYoungData.value.ingredients,
                                              separator |-> ", "],
                                     parsed |-> oliveYoungData.value.ingredients],
                                  platform |-> "oliveyoung"],
                                 oliveYoungData.page)
                  [] platformInfo.platform = "amazon" -> scrapeAmazon(page, url)
                  [] platformInfo.platform = "yesstyle" -> scrapeYesStyle(page, url)
                  [] OTHER -> scrapeGeneric(page, url)
          IN IF scraped.threw THEN scraped
             ELSE Resolved(
                    [name |-> OrElse(scraped.value.name, "Unknown Product"),
                     price |-> OrElse(scraped.value.price, "Price Not Available"),
                     rating |-> scraped.value.rating,
                     reviews |-> scraped.value.reviews,
                     ingredients |-> scraped.value.ingredients,
                     platform |-> platformInfo.platform],
                    scraped.page)

\* scrapeProduct whose catch block throws the generic scraper's error when
\* the fallback fails too
scrapeProduct_ThrowsFallbackError(page, url, productUrl) ==
  LET platformInfo == detectPlatform(url)
      tried == scrapeProductTry(page, url, productUrl)
  IN IF ~tried.threw THEN tried
     ELSE IF platformInfo.platform # "generic" /\ platformInfo.type = "product"
     THEN scrapeGeneric(tried.page, url)
     ELSE tried

\* a rejection inside the try block reaches the catch block: err is
\* tried.value
scrapeProduct(page, url, productUrl) ==
  LET platformInfo == detectPlatform(url)
      tried == scrapeProductTry(page, url, productUrl)
  IN IF ~tried.threw THEN tried
     ELSE IF platformInfo.platform # "generic" /\ platformInfo.type = "product"
     THEN LET fallback == scrapeGeneric(tried.page, url)
          IN IF ~fallback.threw THEN fallback
             ELSE Rejected(tried.value, fallback.page)
     ELSE tried

\* the URLs scraped: those of the scraper test suite, and one more for each
\* platform keyword
Urls ==
  {<<"h","t","t","p","s",":","/","/","w","w","w",".","a","m","a","z","o","n",".","c","o","m","/","d","p","/","B","0","8","N","5","W","R","W","N","W">>,
   <<"h","t","t","p","s",":","/","/","w","w","w",".","e","x","a","m","p","l","e",".","c","o","m","/","p","r","o","d","u","c","t">>,
   <<"h","t","t","p","s",":","/","/","w","w","w",".","t","i","k","t","o","k",".","c","o","m","/","@","t","e","s","t","/","v","i","d","e","o","/","1","2","3","4","5","6","7","8","9">>,
   <<"h","t","t","p","s",":","/","/","w","w","w",".","i","n","s","t","a","g","r","a","m",".","c","o","m","/","p","/","t","e","s","t","1","2","3","/">>,
   <<"h","t","t","p","s",":","/","/","w","w","w",".","y","o","u","t","u","b","e",".","c","o","m","/","w","a","t","c","h","?","v","=","t","e","s","t","1","2","3">>,
   <<"n","o","t","-","a","-","v","a","l","i","d","-","u","r","l">>,
   <<"h","t","t","p","s",":","/","/","t","h","i","s","-","d","o","m","a","i","n","-","d","o","e","s","-","n","o","t","-","e","x","i","s","t","-","1","2","3","4","5",".","c","o","m","/","p","r","o","d","u","c","t">>,
   <<"h","t","t","p","s",":","/","/","g","l","o","b","a","l",".","o","l","i","v","e","y","o","u","n","g",".","c","o","m","/","p","/","1">>,
   <<"h","t","t","p","s",":","/","/">> \o OliveYoungHangul \o <<".","k","r","/","p","/","1">>,
   <<"h","t","t","p","s",":","/","/","w","w","w",".","y","e","s","s","t","y","l","e",".","c","o","m","/","p","/","1">>,
   <<"h","t","t","p","s",":","/","/","w","w","w",".","s","e","p","h","o","r","a",".","c","o","m","/","p","/","1">>,
   <<"h","t","t","p","s",":","/","/","W","W","W",".","U","L","T","A",".","C","O","M","/","p","/","1">>,
   <<"h","t","t","p","s",":","/","/","w","w","w",".","s","t","y","l","e","v","a","n","a",".","c","o","m","/","p","/","1">>,
   <<"h","t","t","p","s",":","/","/","y","o","u","t","u",".","b","e","/","x","1">>,
   <<"h","t","t","p","s",":","/","/","v","m",".","t","i","k","t","o","k",".","c","o","m","/","x","1">>}

ProductUrls ==
  {NoUrl,
   <<"h","t","t","p","s",":","/","/","w","w","w",".","a","m","a","z","o","n",".","c","o","m","/","d","p","/","B","0","8","N","5","W","R","W","N","W">>,
   <<"h","t","t","p","s",":","/","/","w","w","w",".","s","e","p","h","o","r","a",".","c","o","m","/","p","/","1">>,
   <<"h","t","t","p","s",":","/","/","w","w","w",".","e","x","a","m","p","l","e",".","c","o","m","/","p","r","o","d","u","c","t">>}

\* a page just opened by the caller
Pages ==
  {[outcomes |-> [amazon |-> a, yesstyle |-> y, oliveyoung |-> o, tiktok |-> t,
                  generic |-> g],
    visited |-> <<>>] :
     a \in {"throw", "full", "sparse"}, y \in {"throw", "full"},
     o \in {"throw", "null", "data"}, t \in {"scraped", "minimal"},
     g \in [1..MaxGenericCalls -> {"throw", "found", "nothing"}]}

InitScrape ==
  /\ ingredientsDatabase = NullDatabase
  /\ loadPending = TRUE
  /\ product = [name |-> <<"G","l","o","w"," ","G","e","l">>, platform |-> "generic", price |-> <<"$","1","5">>,
                ingredients |-> [raw |-> "", parsed |-> <<>>]]
  /\ social = NoSocial
  /\ reviews = NoReviews
  /\ last = NoCall
  /\ observed = {}
  /\ request \in {[url |-> u, productUrl |-> p] : u \in Urls, p \in ProductUrls}
  /\ openPage \in Pages
  /\ userProfile = NoProfile
  /\ ingredientDB = NoReferenceTable
  /\ browsers = NoBrowsers
  /\ pc = Idle
  /\ reviewList = <<>>

\* scrapeProduct(page, url, productUrl) on a page just opened
ScrapeProduct ==
  /\ request.url # NoUrl
  /\ openPage.visited = <<>>
  /\ LET scraped == scrapeProduct(openPage, request.url, request.productUrl)
     IN /\ last' = [called |-> TRUE,
                    op |-> "scrapeProduct",
                    table |-> ingredientsDatabase,
                    args |-> <<request.url, request.productUrl>>,
                    outcome |-> [threw |-> scraped.threw, result |-> scraped.value]]
        /\ openPage' = scraped.page
  /\ UNCHANGED <<ingredientsDatabase, loadPending, product, social, reviews, observed,
               request,
               userProfile, ingredientDB,
               browsers, pc, reviewList>>

SpecScrape == InitScrape /\ [][ScrapeProduct]_vars

\* analyzePrice over dollar prices around the tier boundaries: every whole
\* amount up to MaxTierPrice, with and without cents, and the price texts of
\* the listings
MaxTierPrice == 101

DigitChar(d) == <<"0", "1", "2", "3", "4", "5", "6", "7", "8", "9">>[d + 1]

\* String(n) for a non-negative integer
RECURSIVE DecimalText(_)
DecimalText(n) ==
  IF n < 10 THEN <<DigitChar(n)>>
  ELSE DecimalText(n \div 10) \o <<DigitChar(n % 10)>>

TierProbes ==
  {[name |-> <<"G","l","o","w"," ","G","e","l">>, platform |-> "generic", price |-> pr,
    ingredients |-> [raw |-> "", parsed |-> <<>>]] :
     pr \in PriceTexts \cup
            {<<"$">> \o DecimalText(n) \o cents :
               n \in 0..MaxTierPrice,
               cents \in {<<>>, <<".","0","1">>, <<".","5","0">>}}}

InitTier ==
  /\ ingredientsDatabase = NullDatabase
  /\ loadPending = TRUE
  /\ product \in TierProbes
  /\ social = NoSocial
  /\ reviews = NoReviews
  /\ last = NoCall
  /\ observed = {}
  /\ request = NoRequest
  /\ openPage = NoPage
  /\ userProfile = NoProfile
  /\ ingredientDB = NoReferenceTable
  /\ browsers = NoBrowsers
  /\ pc = Idle
  /\ reviewList = <<>>

SpecTier == InitTier /\ [][AnalyzePrice]_vars

----------------------------------------------------------------------------
(* The command-line ingredient classifier: analyzeIngredients(ingredients,
   userProfile) against the imported table ingredientDB *)

\* longest ingredient list classified
MaxClassified == 2

\* issue categories and severities an entry of data/ingredients.json may carry
IssueCategories == {<<"C","o","m","e","d","o","g","e","n","i","c">>, <<"I","r","r","i","t","a","n","t">>, <<"D","r","y","i","n","g">>}

\* data/ingredients.json: lowercase ingredient name -> {issue, severity}
ReferenceTables ==
  [{<<"c","o","c","o","n","u","t"," ","o","i","l">>, <<"a","l","c","o","h","o","l"," ","d","e","n","a","t">>}
   -> [issue : IssueCategories, severity : {"low", "medium", "high"}]]

UserProfiles ==
  [skin_type : {"oily", "dry", "combination", "sensitive", "normal"},
   concerns : {<<>>, <<"acne">>, <<"sensitivity">>, <<"acne", "sensitivity">>}]

\* ingredient names as a product page lists them
ClassifiedNames ==
  {<<"c","o","c","o","n","u","t"," ","o","i","l">>, <<"C","o","c","o","n","u","t"," ","O","i","l">>, <<"a","l","c","o","h","o","l"," ","d","e","n","a","t">>, <<"W","a","t","e","r">>, <<"A","B">>}

\* userProfile.concerns.includes(concern)
concernsInclude(concerns, concern) ==
  \E i \in 1..Len(concerns) : concerns[i] = concern

\* the text left in customRecommendation by the two if-chains, '' if neither
\* chain assigns
customRecommendation(ingredient, knownIssue, profile) ==
  LET skinTypeText ==
        IF profile.skin_type = "sensitive" /\ knownIssue.severity = "high"
        THEN <<"E","s","p","e","c","i","a","l","l","y"," ","a","v","o","i","d"," ","d","u","e"," ","t","o"," ","s","e","n","s","i","t","i","v","e"," ","s","k","i","n">>
        ELSE IF /\ profile.skin_type = "oily"
                /\ includes(ingredient, <<"o","i","l">>)
                /\ knownIssue.issue = <<"C","o","m","e","d","o","g","e","n","i","c">>
        THEN <<"M","a","y"," ","w","o","r","s","e","n"," ","o","i","l","y"," ","s","k","i","n"," ","c","o","n","c","e","r","n","s">>
        ELSE IF profile.skin_type = "dry" /\ knownIssue.issue = <<"D","r","y","i","n","g">>
        THEN <<"M","a","y"," ","w","o","r","s","e","n"," ","d","r","y"," ","s","k","i","n"," ","c","o","n","c","e","r","n","s">>
        ELSE <<>>
  IN IF concernsInclude(profile.concerns, "acne") /\ knownIssue.issue = <<"C","o","m","e","d","o","g","e","n","i","c">>
     THEN <<"M","a","y"," ","t","r","i","g","g","e","r"," ","a","c","n","e"," ","b","r","e","a","k","o","u","t","s">>
     ELSE IF concernsInclude(profile.concerns, "sensitivity")
             /\ knownIssue.severity = "high"
     THEN <<"H","i","g","h"," ","r","i","s","k"," ","f","o","r"," ","s","e","n","s","i","t","i","v","e"," ","s","k","i","n"," ","r","e","a","c","t","i","o","n","s">>
     ELSE skinTypeText

\* the record pushed to flaggedIngredients
flaggedIngredient(ingredient, knownIssue, profile) ==
  LET custom == customRecommendation(ingredient, knownIssue, profile)
  IN [name |-> ingredient,
      issue |-> knownIssue.issue,
      severity |-> knownIssue.severity,
      recommendation |->
        IF custom # <<>> THEN custom
        ELSE <<"C","o","n","s","i","d","e","r"," ","a","v","o","i","d","i","n","g"," ","d","u","e"," ","t","o"," ">> \o toLowerCase(knownIssue.issue)]

\* names shorter than 3 are skipped; a name whose lowercase form is a key of
\* the table is flagged, any other is safe
analyzeIngredients_Profile(table, ingredients, profile) ==
  LET considered == SelectSeq(ingredients, LAMBDA ingredient : Len(ingredient) >= 3)
      known(ingredient) == toLowerCase(ingredient) \in DOMAIN table
      flagged == SelectSeq(considered, known)
  IN [safeIngredients |->
        SelectSeq(considered, LAMBDA ingredient : ~known(ingredient)),
      flaggedIngredients |->
        [i \in 1..Len(flagged) |->
           flaggedIngredient(flagged[i], table[toLowerCase(flagged[i])], profile)]]

ClassifierProbes ==
  {[name |-> <<"G","l","o","w"," ","G","e","l">>, platform |-> "generic", price |-> <<"$","1","4",".","9","9">>,
    ingredients |-> [raw |-> "", parsed |-> ing]] :
     ing \in DistinctListsUpTo(ClassifiedNames, MaxClassified)}

InitClassifier ==
  /\ ingredientsDatabase = NullDatabase
  /\ loadPending = FALSE
  /\ product \in ClassifierProbes
  /\ social = NoSocial
  /\ reviews = NoReviews
  /\ last = NoCall
  /\ observed = {}
  /\ request = NoRequest
  /\ openPage = NoPage
  /\ userProfile \in UserProfiles
  /\ ingredientDB \in ReferenceTables
  /\ browsers = NoBrowsers
  /\ pc = Idle
  /\ reviewList = <<>>

\* analyzeIngredients(productData.ingredients.parsed, userProfile)
AnalyzeIngredients ==
  /\ ingredientDB # NoReferenceTable
  /\ last' = [called |-> TRUE,
              op |-> "analyzeIngredients",
              table |-> ingredientDB,
              args |-> <<product.ingredients.parsed, userProfile>>,
              outcome |->
                [threw |-> FALSE,
                 result |-> analyzeIngredients_Profile(ingredientDB,
                              product.ingredients.parsed, userProfile)]]
  /\ UNCHANGED <<ingredientsDatabase, loadPending, product, social, reviews, observed,
               request, openPage, userProfile, ingredientDB,
               browsers, pc, reviewList>>

SpecClassifier == InitClassifier /\ [][AnalyzeIngredients]_vars

----------------------------------------------------------------------------
(* The commands: UnhypedCLI.analyzeProduct (src/index.ts) and runRealityCheck
   (src/realityCheck.ts), one step per await.  browsers lists the browsers
   launched so far; pc is the position of the running command. *)

\* the string s as the engine inspects it, character by character
Spell(s) ==
  CASE s = "Glow Gel" -> <<"G","l","o","w"," ","G","e","l">>
    [] s = "Unknown" -> <<"U","n","k","n","o","w","n">>
    [] s = "Unknown Product" -> <<"U","n","k","n","o","w","n"," ","P","r","o","d","u","c","t">>
    [] s = "Snail Essence" -> <<"S","n","a","i","l"," ","E","s","s","e","n","c","e">>
    [] s = "$15" -> <<"$","1","5">>
    [] s = "$21.00" -> <<"$","2","1",".","0","0">>
    [] s = "Price Not Available" -> <<"P","r","i","c","e"," ","N","o","t"," ","A","v","a","i","l","a","b","l","e">>
    [] s = "water" -> <<"w","a","t","e","r">>
    [] s = "glycerin" -> <<"g","l","y","c","e","r","i","n">>
    [] s = "snail secretion filtrate" -> <<"s","n","a","i","l"," ","s","e","c","r","e","t","i","o","n"," ","f","i","l","t","r","a","t","e">>
    [] s = "ad" -> <<"a","d">>

SpellAll(list) == [i \in 1..Len(list) |-> Spell(list[i])]

\* the productData object scrapeProduct resolved with, as analyzeProduct reads it
ScrapedProduct(productData) ==
  [name |-> Spell(productData.name),
   platform |-> productData.platform,
   price |-> Spell(productData.price),
   ingredients |-> [raw |-> "", parsed |-> SpellAll(productData.ingredients.parsed)]]

\* the TikTokVideoData object scrapeTikTok resolved with, as analyzeProduct
\* reads it: any object is truthy, so it counts as social data
ScrapedSocial(socialData) ==
  [present |-> TRUE,
   hashtags |-> SpellAll(socialData.hashtags),
   likes |-> socialData.likes,
   views |-> socialData.views,
   affiliate_codes |-> socialData.affiliate_codes,
   promotional_keywords |-> socialData.promotional_keywords,
   paid_promotion_detected |-> socialData.paid_promotion_detected]

\* productData before the scrape
NotScraped ==
  [name |-> <<>>, platform |-> "generic", price |-> <<>>,
   ingredients |-> [raw |-> "", parsed |-> <<>>]]

\* scrapeReviewData: the mock summary
MockReviewSummary ==
  [present |-> TRUE, total_reviews |-> 0,
   sentiment_breakdown |-> [positive |-> 0, negative |-> 0, neutral |-> 0],
   common_negatives |-> <<>>]

Launched(owner) == [owner |-> owner, status |-> "open"]

\* the browsers scrapeOliveYoung launched during a scrape that took the page
\* from before to after: none if its launch rejected, closed by its try or
\* its catch block, open if newPage or setUserAgent rejected
NestedBrowsers(before, after) ==
  LET calls == SubSeq(after.visited, Len(before.visited) + 1, Len(after.visited))
      launches == SelectSeq(calls, LAMBDA v : v.scraper = "oliveyoung"
                                              /\ before.outcomes.oliveyoung # "throw")
  IN [i \in 1..Len(launches) |->
        [owner |-> "scrapeOliveYoung",
         status |-> IF before.outcomes.oliveyoung = "stranded" THEN "open"
                    ELSE "closed"]]

\* the function whose puppeteer.launch the running command is in
Owner ==
  IF pc.fn = "runRealityCheck" THEN "runRealityCheck"
  ELSE IF pc.stage = "product" THEN "scrapeProductData"
  ELSE "scrapeTikTokData"

\* the browser held by that function: the last one it launched
OwnBrowser ==
  CHOOSE i \in 1..Len(browsers) :
    /\ browsers[i].owner = Owner
    /\ \A j \in (i + 1)..Len(browsers) : browsers[j].owner # Owner

At(fn, at) == pc.fn = fn /\ pc.at = at

Running == pc.fn \in {"analyzeProduct", "runRealityCheck"}

\* runRealityCheck: fs.readFile(profilePath) and JSON.parse
ReadProfile ==
  /\ At("runRealityCheck", "profile")
  /\ \E resolves \in BOOLEAN :
       pc' = [pc EXCEPT !.at = IF resolves THEN "launch" ELSE "catch"]
  /\ UNCHANGED <<ingredientsDatabase, loadPending, product, social, reviews, last,
               observed, request, openPage, userProfile, ingredientDB, browsers, reviewList>>

\* const browser = await puppeteer.launch(...)
Launch ==
  /\ Running /\ pc.at = "launch"
  /\ \E resolves \in BOOLEAN :
       IF resolves
       THEN /\ browsers' = Append(browsers, Launched(Owner))
            /\ pc' = [pc EXCEPT !.at = "newPage"]
       ELSE /\ browsers' = browsers
            /\ pc' = [pc EXCEPT !.at = "catch"]
  /\ UNCHANGED <<ingredientsDatabase, loadPending, product, social, reviews, last,
               observed, request, openPage, userProfile, ingredientDB, reviewList>>

\* const page = await browser.newPage(): in scrapeProductData and
\* scrapeTikTokData it precedes the try block, in runRealityCheck the catch
\* block does not close the browser
NewPage ==
  /\ Running /\ pc.at = "newPage"
  /\ \E resolves \in BOOLEAN :
       pc' = [pc EXCEPT !.at = IF resolves THEN "scrape" ELSE "catch"]
  /\ UNCHANGED <<ingredientsDatabase, loadPending, product, social, reviews, last,
               observed, request, openPage, userProfile, ingredientDB, browsers, reviewList>>

\* await scrapeProduct(page, url): in scrapeProductData the finally block
\* follows either way; in runRealityCheck a rejection goes to the catch block
ScrapeProductData ==
  /\ Running /\ pc.at = "scrape" /\ pc.stage = "product"
  /\ \E scraped \in {scrapeProduct(openPage, request.url, NoUrl)} :
        /\ openPage' = scraped.page
        /\ browsers' = browsers \o NestedBrowsers(openPage, scraped.page)
        /\ product' = IF scraped.threw THEN product ELSE ScrapedProduct(scraped.value)
        /\ pc' = [pc EXCEPT !.threw = scraped.threw,
                            !.at = IF scraped.threw /\ pc.fn = "runRealityCheck"
                                   THEN "catch" ELSE "close"]
  /\ UNCHANGED <<ingredientsDatabase, loadPending, social, reviews, last,
               observed, request, userProfile, ingredientDB, reviewList>>

\* await scrapeTikTok(page, url) in scrapeTikTokData
ScrapeTikTokData ==
  /\ At("analyzeProduct", "scrape") /\ pc.stage = "tiktok"
  /\ \E scraped \in {scrapeTikTok(openPage, request.socialUrl)} :
        /\ openPage' = scraped.page
        /\ social' = IF scraped.threw THEN social ELSE ScrapedSocial(scraped.value)
        /\ pc' = [pc EXCEPT !.threw = scraped.threw, !.at = "close"]
  /\ UNCHANGED <<ingredientsDatabase, loadPending, product, reviews, last,
               observed, request, userProfile, ingredientDB, browsers, reviewList>>

\* await browser.close(), then what follows the call that launched it
Close ==
  /\ Running /\ pc.at = "close"
  /\ browsers' = [browsers EXCEPT ![OwnBrowser].status = "closed"]
  /\ pc' = IF pc.threw THEN [pc EXCEPT !.at = "catch"]
           ELSE IF pc.fn = "runRealityCheck" THEN [pc EXCEPT !.at = "report"]
           ELSE IF pc.stage = "product" THEN [pc EXCEPT !.at = "social"]
           ELSE [pc EXCEPT !.at = "reviews"]
  /\ UNCHANGED <<ingredientsDatabase, loadPending, product, social, reviews, last,
               observed, request, openPage, userProfile, ingredientDB, reviewList>>

\* Step 2 of analyzeProduct: only a socialUrl that includes 'tiktok.com' is
\* scraped
ChooseSocial ==
  /\ At("analyzeProduct", "social")
  /\ pc' = IF request.socialUrl # NoUrl /\ includes(request.socialUrl, <<"t","i","k","t","o","k",".","c","o","m">>)
           THEN [pc EXCEPT !.stage = "tiktok", !.at = "launch"]
           ELSE [pc EXCEPT !.at = "reviews"]
  /\ UNCHANGED <<ingredientsDatabase, loadPending, product, social, reviews, last,
               observed, request, openPage, userProfile, ingredientDB, browsers, reviewList>>

\* Step 3 of analyzeProduct: await this.scrapeReviewData(productData.name)
GatherReviews ==
  /\ At("analyzeProduct", "reviews")
  /\ reviews' = MockReviewSummary
  /\ pc' = [pc EXCEPT !.at = "engine"]
  /\ UNCHANGED <<ingredientsDatabase, loadPending, product, social, last,
               observed, request, openPage, userProfile, ingredientDB, browsers, reviewList>>

\* Step 4 of analyzeProduct: await this.realityEngine.analyzeProduct(
\* productData, socialData, reviewSummary)
RunRealityEngine ==
  /\ At("analyzeProduct", "engine")
  /\ \E outcome \in {analyzeProduct(ingredientsDatabase, product, social, reviews)} :
        /\ last' = [called |-> TRUE,
                    op |-> "analyzeProduct",
                    table |-> ingredientsDatabase,
                    args |-> <<product, social, reviews>>,
                    outcome |-> outcome]
        /\ pc' = [pc EXCEPT !.at = IF outcome.threw THEN "catch" ELSE "done"]
  /\ observed' = IF Len(product.ingredients.parsed) > 0
                 THEN observed \cup {ingredientsDatabase}
                 ELSE observed
  /\ UNCHANGED <<ingredientsDatabase, loadPending, product, social, reviews,
               request, openPage, userProfile, ingredientDB, browsers, reviewList>>

\* runRealityCheck after the browser is closed: the analysis and the report
\* file; fs.writeFile may reject
WriteReport ==
  /\ At("runRealityCheck", "report")
  /\ \E resolves \in BOOLEAN :
       pc' = [pc EXCEPT !.at = IF resolves THEN "done" ELSE "catch"]
  /\ UNCHANGED <<ingredientsDatabase, loadPending, product, social, reviews, last,
               observed, request, openPage, userProfile, ingredientDB, browsers, reviewList>>

\* catch: process.exit(1); a browser still open ends with the process
ProcessExit ==
  /\ Running /\ pc.at = "catch"
  /\ pc' = [pc EXCEPT !.at = "exited"]
  /\ browsers' = [i \in 1..Len(browsers) |->
                    IF browsers[i].status = "open"
                    THEN [browsers[i] EXCEPT !.status = "killed"]
                    ELSE browsers[i]]
  /\ UNCHANGED <<ingredientsDatabase, loadPending, product, social, reviews, last,
               observed, request, openPage, userProfile, ingredientDB, reviewList>>

\* product pages given to the commands
CommandUrls ==
  {<<"h","t","t","p","s",":","/","/","w","w","w",".","a","m","a","z","o","n",".","c","o","m","/","d","p","/","B","0","8","N","5","W","R","W","N","W">>,
   <<"h","t","t","p","s",":","/","/","g","l","o","b","a","l",".","o","l","i","v","e","y","o","u","n","g",".","c","o","m","/","p","/","1">>,
   <<"h","t","t","p","s",":","/","/","w","w","w",".","e","x","a","m","p","l","e",".","c","o","m","/","p","r","o","d","u","c","t">>}

SocialUrls ==
  {NoUrl,
   <<"h","t","t","p","s",":","/","/","w","w","w",".","t","i","k","t","o","k",".","c","o","m","/","@","t","e","s","t","/","v","i","d","e","o","/","1","2","3","4","5","6","7","8","9">>,
   <<"h","t","t","p","s",":","/","/","w","w","w",".","i","n","s","t","a","g","r","a","m",".","c","o","m","/","p","/","t","e","s","t","1","2","3","/">>}

\* the network as the commands may find it
CommandPages ==
  {[outcomes |-> [amazon |-> a, yesstyle |-> "full", oliveyoung |-> o,
                  tiktok |-> t, generic |-> g],
    visited |-> <<>>] :
     a \in {"throw", "full"},
     o \in {"throw", "stranded", "null", "data"}, t \in {"scraped", "minimal"},
     g \in [1..MaxGenericCalls -> {"throw", "found"}]}

\* unhyped analyze <product-url> [-s <url>], or the reality checker on a
\* product URL; new UnhypedCLI() constructs the engine, whose table load is
\* pending
InitCommand ==
  /\ ingredientsDatabase = NullDatabase
  /\ product = NotScraped
  /\ social = NoSocial
  /\ reviews = NoReviews
  /\ last = NoCall
  /\ observed = {}
  /\ openPage \in CommandPages
  /\ userProfile = NoProfile
  /\ ingredientDB = NoReferenceTable
  /\ browsers = NoBrowsers
  /\ \/ /\ pc = [fn |-> "analyzeProduct", stage |-> "product",
                 at |-> "launch", threw |-> FALSE]
        /\ loadPending = TRUE
        /\ request \in {[url |-> u, productUrl |-> NoUrl, socialUrl |-> s] :
                          u \in CommandUrls, s \in SocialUrls}
     \/ /\ pc = [fn |-> "runRealityCheck", stage |-> "product",
                 at |-> "profile", threw |-> FALSE]
        /\ loadPending = FALSE
        /\ request \in {[url |-> u, productUrl |-> NoUrl, socialUrl |-> NoUrl] :
                          u \in CommandUrls}
  /\ reviewList = <<>>

NextCommand ==
  \/ LoadFromFile
  \/ LoadFallback
  \/ ReadProfile
  \/ Launch
  \/ NewPage
  \/ ScrapeProductData
  \/ ScrapeTikTokData
  \/ Close
  \/ ChooseSocial
  \/ GatherReviews
  \/ RunRealityEngine
  \/ WriteReport
  \/ ProcessExit

SpecCommand == InitCommand /\ [][NextCommand]_vars

\* the running command moves on: the await it is suspended at settles, or
\* its synchronous code reaches the next await
Settle ==
  /\ Running /\ pc.at \notin {"done", "exited"}
  /\ \E next \in [fn : {"analyzeProduct", "runRealityCheck"},
                   stage : {"product", "tiktok"},
                   at : {"profile", "launch", "newPage", "scrape", "close", "social",
                         "reviews", "engine", "report", "catch", "done", "exited"},
                   threw : BOOLEAN] :
       next # pc /\ pc' = next

\* the event loop resumes a command whose await has settled, and every
\* pending puppeteer, file and scraper promise settles: a command that has
\* not ended does not stay where it is for ever
FairSpecCommand == SpecCommand /\ WF_pc(Settle)

----------------------------------------------------------------------------
(* The review scrapers: analyzeSentiment and generateReviewSummary *)

\* most reviews in one scraped list
MaxReviews == 3

\* a star rating in tenths of a star (parseFloat of "4.5" in "4.5 out of 5"
\* is 45 tenths); rating: null when the review element carries none
NoRating == [given |-> FALSE, tenths |-> 0]

positiveKeywords ==
  {<<"l","o","v","e">>, <<"a","m","a","z","i","n","g">>, <<"g","r","e","a","t">>, <<"e","x","c","e","l","l","e","n","t">>, <<"r","e","c","o","m","m","e","n","d">>, <<"b","e","s","t">>, <<"g","o","o","d">>,
   <<"w","o","r","k","s">>, <<"e","f","f","e","c","t","i","v","e">>}

negativeKeywords ==
  {<<"h","a","t","e">>, <<"t","e","r","r","i","b","l","e">>, <<"a","w","f","u","l">>, <<"b","a","d">>, <<"b","r","o","k","e"," ","o","u","t">>, <<"i","r","r","i","t","a","t","i","n","g">>,
   <<"a","l","l","e","r","g","i","c">>, <<"w","a","s","t","e">>}

\* keywords.filter(word => lowerContent.includes(word)).length
KeywordScore(keywords, lowerContent) ==
  Cardinality({word \in keywords : includes(lowerContent, word)})

analyzeSentiment_Mixed(content, rating) ==
  IF rating.given
  THEN IF rating.tenths >= 40 THEN "positive"
       ELSE IF rating.tenths <= 20 THEN "negative"
       ELSE "neutral"
  ELSE LET lowerContent == toLowerCase(content)
           positiveScore == KeywordScore(positiveKeywords, lowerContent)
           negativeScore == KeywordScore(negativeKeywords, lowerContent)
       IN IF positiveScore > negativeScore THEN "positive"
          ELSE IF negativeScore > positiveScore THEN "negative"
          ELSE IF positiveScore > 0 THEN "mixed"
          ELSE "neutral"

analyzeSentiment(content, rating) ==
  IF rating.given
  THEN IF rating.tenths >= 40 THEN "positive"
       ELSE IF rating.tenths <= 20 THEN "negative"
       ELSE "neutral"
  ELSE LET lowerContent == toLowerCase(content)
           positiveScore == KeywordScore(positiveKeywords, lowerContent)
           negativeScore == KeywordScore(negativeKeywords, lowerContent)
       IN IF positiveScore > negativeScore THEN "positive"
          ELSE IF negativeScore > positiveScore THEN "negative"
          ELSE "neutral"

\* a processed review of scrapeSephoraReviews; the fields the summary does not
\* read (author, title, key_phrases, the null counters) are left out
SephoraReview(content, rating) ==
  [platform |-> "sephora", rating |-> rating, content |-> content,
   sentiment |-> analyzeSentiment(content, rating)]

\* a processed review of scrapeRedditReviews: rating null, sentiment from the
\* content alone (analyzeSentiment is called without a rating)
RedditReview(content) ==
  [platform |-> "reddit", rating |-> NoRating, content |-> content,
   sentiment |-> analyzeSentiment(content, NoRating)]

ReviewTexts ==
  {<<"L","o","v","e"," ","i","t",","," ","w","o","r","k","s">>, <<"B","A","D",":"," ","b","r","o","k","e"," ","o","u","t">>, <<"g","o","o","d"," ","b","u","t"," ","b","a","d">>, <<"i","t"," ","i","s"," ","f","i","n","e">>}

ProcessedReviews ==
  {SephoraReview(content, rating) :
     content \in ReviewTexts,
     rating \in {NoRating} \cup {[given |-> TRUE, tenths |-> t] : t \in {20, 30, 45}}}
  \cup {RedditReview(content) : content \in ReviewTexts}

\* reviews.filter(r => r.sentiment === sentiment).length
SentimentCount(list, sentiment) ==
  Cardinality({i \in DOMAIN list : list[i].sentiment = sentiment})

RECURSIVE RatingTotal(_)
\* ratingsWithValues.reduce((sum, r) => sum + (r.rating || 0), 0), in tenths
RatingTotal(list) ==
  IF list = <<>> THEN 0
  ELSE (IF Head(list).rating.given THEN Head(list).rating.tenths ELSE 0)
       + RatingTotal(Tail(list))

\* average_rating is kept as the quotient's two terms (tenths over count);
\* the phrase lists and the recent/helpful slices are left out
generateReviewSummary(list) ==
  IF Len(list) = 0
  THEN [total_reviews |-> 0,
        average_rating |-> <<>>,
        sentiment_breakdown |-> [positive |-> 0, negative |-> 0, neutral |-> 0]]
  ELSE LET ratingsWithValues == {i \in DOMAIN list : list[i].rating.given}
       IN [total_reviews |-> Len(list),
           average_rating |->
             IF ratingsWithValues = {} THEN <<>>
             ELSE <<RatingTotal(list), Cardinality(ratingsWithValues)>>,
           sentiment_breakdown |->
             [positive |-> SentimentCount(list, "positive"),
              negative |-> SentimentCount(list, "negative"),
              neutral |-> SentimentCount(list, "neutral")]]

InitSummary ==
  /\ ingredientsDatabase = NullDatabase
  /\ loadPending = FALSE
  /\ product = NotScraped
  /\ social = NoSocial
  /\ reviews = NoReviews
  /\ last = NoCall
  /\ observed = {}
  /\ request = NoRequest
  /\ openPage = NoPage
  /\ userProfile = NoProfile
  /\ ingredientDB = NoReferenceTable
  /\ browsers = NoBrowsers
  /\ pc = Idle
  /\ reviewList \in UNION {[1..n -> ProcessedReviews] : n \in 0..MaxReviews}

\* generateReviewSummary(reviews) on a list a review scraper returned
GenerateReviewSummary ==
  /\ ~last.called
  /\ last' = [called |-> TRUE,
              op |-> "generateReviewSummary",
              args |-> <<reviewList>>,
              outcome |-> [threw |-> FALSE,
                           result |-> generateReviewSummary(reviewList)]]
  /\ UNCHANGED <<ingredientsDatabase, loadPending, product, social, reviews, observed,
               request, openPage, userProfile, ingredientDB,
               browsers, pc, reviewList>>

SpecSummary == InitSummary /\ [][GenerateReviewSummary]_vars

\* what the caller reads in a returned result now: shared objects are read
\* through the caller's records
Deref(ref, current) == IF ref.shared THEN current ELSE ref.atReturn

ResultNow ==
  [last.outcome.result EXCEPT
     !.review_analysis.sentiment_distribution =
        Deref(@, reviews.sentiment_breakdown),
     !.review_analysis.common_concerns =
        Deref(@, reviews.common_negatives)]

----------------------------------------------------------------------------
(* Properties *)

\* the last analyzeProduct call returned a result
Returned ==
  last.called /\ last.op = "analyzeProduct" /\ ~last.outcome.threw

\* a <= b on JavaScript numbers: false when either side is NaN
JsLeq(a, b) == a # NaN /\ b # NaN /\ a <= b

\* C1: the reality_score of every returned result is an integer in 0..100
C1_ScoreInRange ==
  Returned => last.outcome.result.reality_score \in 0..100

ResultFields ==
  {"reality_score", "confidence_level", "overall_verdict", "product_analysis",
   "social_analysis", "ingredient_analysis", "review_analysis", "price_analysis",
   "red_flags", "green_flags", "recommendations", "data_sources"}

\* C2: analyzeProduct is total: whatever table the engine holds, the call
\* does not throw and its result has every field
C2_Total ==
  (last.called /\ last.op = "analyzeProduct") =>
     /\ ~last.outcome.threw
     /\ DOMAIN last.outcome.result = ResultFields

\* C3: a SocialRecord with paid_promotion_detected = true always gets the
\* verdict likely_sponsored, whatever the score
C3_VerdictOverride ==
  (Returned /\ last.args[2].present /\ last.args[2].paid_promotion_detected) =>
     last.outcome.result.overall_verdict = "likely_sponsored"

\* C3 witness: a flagged record whose score alone would have read authentic
C3_Witness ==
  /\ Returned
  /\ last.args[2].present /\ last.args[2].paid_promotion_detected
  /\ last.outcome.result.reality_score >= 70
  /\ last.outcome.result.overall_verdict = "likely_sponsored"

\* C4: idempotence: a call with the same inputs as the previous call on the
\* same engine has the same outcome
C4_Idempotent ==
  [][(/\ last.called /\ last'.called
      /\ last.op = "analyzeProduct" /\ last'.op = "analyzeProduct"
      /\ last'.args = last.args)
     => last'.outcome = last.outcome]_vars

\* C5: no call reads the reference table before it is loaded, and all calls
\* on the engine read the same table
C5_TableReadOnly ==
  /\ NullDatabase \notin observed
  /\ Cardinality(observed) <= 1

\* the SocialRecord B of C6: flag cleared, no affiliate codes, spammy
\* hashtags removed
IsSpammy(tag) ==
  \E spam \in {<<"a","d">>, <<"s","p","o","n","s","o","r","e","d">>, <<"p","r","o","m","o">>, <<"a","f","f","i","l","i","a","t","e">>, <<"l","i","n","k","i","n","b","i","o">>} :
    includes(toLowerCase(tag), spam)

WithoutPromotion(a) ==
  [a EXCEPT !.paid_promotion_detected = FALSE,
            !.affiliate_codes = <<>>,
            !.hashtags = SelectSeq(a.hashtags, LAMBDA tag : ~IsSpammy(tag))]

\* C6: monotonic social penalty: a flagged SocialRecord A never scores above
\* the record B obtained from it (same product, same reviews, same engine)
C6_MonotonicPenalty ==
  (Returned /\ last.args[2].present /\ last.args[2].paid_promotion_detected) =>
     JsLeq(last.outcome.result.reality_score,
           RealityCheckResult(last.table, last.args[1],
                              WithoutPromotion(last.args[2]),
                              last.args[3]).reality_score)

\* the score C7 states, computed from the fields of a result:
\* clamp(round(0.20 p + 0.30 s + 0.25 i + 0.15 r + 0.10 c), 0, 100), NaN when
\* a term is NaN; the sum is kept as a multiple of 1/40
ClaimedScore(r) ==
  LET p2 == r.product_analysis.availability_score
            + r.product_analysis.price_reasonableness
      s2 == IF ~r.social_analysis.has_social_data THEN 150
            ELSE 100 - r.social_analysis.sponsored_content_probability
                 + r.social_analysis.hashtag_authenticity
      i2 == r.ingredient_analysis.ingredient_quality_score
            + r.ingredient_analysis.ingredient_authenticity
      rv == IF r.review_analysis.review_count = 0 THEN 75
            ELSE r.review_analysis.review_authenticity_score
      c  == r.price_analysis.price_vs_ingredients
      sum40 == 4 * p2 + 6 * s2 + 5 * i2 + 6 * rv + 4 * c
      rounded == (sum40 + 20) \div 40
  IN IF c = NaN THEN NaN ELSE Max(0, Min(100, rounded))

\* C7: reality_score is the rounded, clamped weighted sum of the five
\* component scores, with 75 for absent social data and for zero reviews
C7_WeightedSum ==
  Returned => last.outcome.result.reality_score = ClaimedScore(last.outcome.result)

\* C7 witness: analyzeProduct(product) alone returned a numeric score
C7_Witness ==
  /\ Returned
  /\ ~last.args[2].present /\ ~last.args[3].present
  /\ last.outcome.result.reality_score # NaN
  /\ last.outcome.result.ingredient_analysis.total_ingredients > 0

\* C8: a price text without any digit gives the parse-failure result
C8_ParseFailure ==
  (/\ last.called /\ last.op = "analyzePrice"
   /\ \A i \in 1..Len(last.args[1]) : last.args[1][i] \notin Digits)
  => last.outcome.result =
       [price_range |-> last.args[1],
        value_assessment |-> "unknown",
        price_vs_ingredients |-> 50,
        market_comparison |-> "market_rate"]

\* a review_analysis as the values it held when the call returned
ReviewAnalysisAtReturn(ra) ==
  [ra EXCEPT !.sentiment_distribution = @.atReturn,
             !.common_concerns = @.atReturn]

\* C9: absent social data and an absent review summary give exactly the
\* documented neutral records
C9_NeutralDefaults ==
  Returned =>
    /\ ~last.args[2].present =>
         last.outcome.result.social_analysis =
           [has_social_data |-> FALSE,
            promotional_detected |-> FALSE,
            affiliate_codes_found |-> 0,
            hashtag_authenticity |-> 50,
            influencer_credibility |-> "unknown",
            sponsored_content_probability |-> 0]
    /\ ~last.args[3].present =>
         ReviewAnalysisAtReturn(last.outcome.result.review_analysis) =
           [review_count |-> 0,
            sentiment_distribution |-> [positive |-> 0, negative |-> 0, neutral |-> 0],
            review_authenticity_score |-> 50,
            common_concerns |-> <<>>,
            review_credibility |-> "low"]

\* C9 witness: a call without social data and without reviews returned
C9_Witness ==
  Returned /\ ~last.args[2].present /\ ~last.args[3].present

\* C10: once returned, a result reads the same whatever the caller does to
\* its own records
C10_FreshResult ==
  [][(Returned /\ last' = last) => ResultNow' = ResultNow]_vars

\* C11: in every returned result, whatever the ingredient list and whether
\* the call read the table or null, ingredient_quality_score and
\* ingredient_authenticity are in 0..100
C11_IngredientScoresInRange ==
  Returned =>
    /\ last.outcome.result.ingredient_analysis.ingredient_quality_score \in 0..100
    /\ last.outcome.result.ingredient_analysis.ingredient_authenticity \in 0..100

\* C11 witness: every ingredient is beneficial and none harmful, so the sum
\* before the clamp is 110
C11_Witness ==
  /\ Returned
  /\ last.table.loaded
  /\ LET ia == last.outcome.result.ingredient_analysis
     IN /\ ia.total_ingredients > 0
        /\ Len(ia.beneficial_ingredients) = ia.total_ingredients
        /\ ia.potentially_harmful = <<>>
        /\ ia.ingredient_quality_score = 100

\* the call of Scenario 1
Scenario1 ==
  /\ last.called /\ last.op = "analyzeProduct"
  /\ last.args[1].ingredients.parsed = <<<<"w","a","t","e","r">>, <<"n","i","a","c","i","n","a","m","i","d","e">>, <<"g","l","y","c","e","r","i","n">>>>
  /\ last.args[1].price = <<"$","1","5">>
  /\ ~last.args[2].present /\ ~last.args[3].present
  /\ last.table.loaded

DisclosureCount(hashtags) ==
  Len(SelectSeq(hashtags,
        LAMBDA tag : tag \in {<<"a","d">>, <<"s","p","o","n","s","o","r","e","d">>, <<"p","r","o","m","o">>, <<"a","f","f","i","l","i","a","t","e">>, <<"g","i","f","t","e","d">>}))

\* C12: for a present SocialRecord, sponsored_content_probability is
\* min(100, 40 [flag] + 30 [>= 1 affiliate code] + 20 [>= 1 promotional
\* keyword] + 10 per disclosure hashtag)
C12_SponsoredProbability ==
  (Returned /\ last.args[2].present) =>
    last.outcome.result.social_analysis.sponsored_content_probability =
      Min(100,
          (IF last.args[2].paid_promotion_detected THEN 40 ELSE 0)
          + (IF Len(last.args[2].affiliate_codes) >= 1 THEN 30 ELSE 0)
          + (IF Len(last.args[2].promotional_keywords) >= 1 THEN 20 ELSE 0)
          + 10 * DisclosureCount(last.args[2].hashtags))

\* C12 witness: the claim's example (hashtags ad, sponsored, skincare, one
\* affiliate code, the flag set, no keywords) gave 90
C12_Witness ==
  /\ Returned /\ last.args[2].present
  /\ last.args[2].hashtags = <<<<"a","d">>, <<"s","p","o","n","s","o","r","e","d">>, <<"s","k","i","n","c","a","r","e">>>>
  /\ Len(last.args[2].affiliate_codes) = 1
  /\ last.args[2].paid_promotion_detected
  /\ last.args[2].promotional_keywords = <<>>
  /\ last.outcome.result.social_analysis.sponsored_content_probability = 90

\* C18: the verdict decision table: likely_sponsored exactly when
\* promotional_detected or sponsored_content_probability > 70; otherwise
\* authentic exactly when reality_score >= 70; otherwise suspicious
C18_VerdictTable ==
  Returned =>
    LET r == last.outcome.result
    IN r.overall_verdict =
         IF r.social_analysis.promotional_detected
            \/ r.social_analysis.sponsored_content_probability > 70
         THEN "likely_sponsored"
         ELSE IF JsLeq(70, r.reality_score) THEN "authentic"
         ELSE "suspicious"

\* C18 witness: the flag is false and the probability alone, above 70, made
\* the verdict likely_sponsored
C18_Witness ==
  /\ Returned
  /\ ~last.outcome.result.social_analysis.promotional_detected
  /\ last.outcome.result.social_analysis.sponsored_content_probability > 70
  /\ last.outcome.result.overall_verdict = "likely_sponsored"

\* C19: the confidence rule: high exactly when has_social_data and
\* reality_score > 80; otherwise medium exactly when has_social_data or
\* reality_score > 60; otherwise low
C19_ConfidenceRule ==
  Returned =>
    LET r == last.outcome.result
        above(k) == r.reality_score # NaN /\ r.reality_score > k
    IN r.confidence_level =
         IF r.social_analysis.has_social_data /\ above(80) THEN "high"
         ELSE IF r.social_analysis.has_social_data \/ above(60) THEN "medium"
         ELSE "low"

\* C19 witness: social data with a score of 60 or less still reads medium
C19_Witness ==
  /\ Returned
  /\ last.outcome.result.social_analysis.has_social_data
  /\ last.outcome.result.reality_score \in 0..60
  /\ last.outcome.result.confidence_level = "medium"

\* a hashtag is organic when it contains one of the five organic words
IsOrganic(tag) ==
  \E org \in {<<"s","k","i","n","c","a","r","e">>, <<"b","e","a","u","t","y">>, <<"s","e","l","f","c","a","r","e">>, <<"r","o","u","t","i","n","e">>, <<"r","e","v","i","e","w">>} :
    includes(toLowerCase(tag), org)

\* the score C20 states for a hashtag list
ClaimedHashtagAuthenticity(hashtags) ==
  LET spammyCount  == Len(SelectSeq(hashtags, IsSpammy))
      organicCount == Len(SelectSeq(hashtags, IsOrganic))
  IN IF spammyCount > organicCount THEN 30
     ELSE IF organicCount > spammyCount THEN 85
     ELSE 60

\* C20 as stated: for every hashtag list, the empty one included,
\* hashtag_authenticity is 30 / 85 / 60 by the spammy and organic counts
C20_Original ==
  (Returned /\ last.args[2].present) =>
    last.outcome.result.social_analysis.hashtag_authenticity =
      ClaimedHashtagAuthenticity(last.args[2].hashtags)

\* C20: hashtag_authenticity is 75 for the empty hashtag list; for a
\* non-empty list it is 30 when more hashtags are spammy than organic, 85 when
\* more are organic than spammy, and 60 otherwise
C20_HashtagAuthenticity ==
  (Returned /\ last.args[2].present) =>
    last.outcome.result.social_analysis.hashtag_authenticity =
      IF last.args[2].hashtags = <<>> THEN 75
      ELSE ClaimedHashtagAuthenticity(last.args[2].hashtags)

\* C20 witness: a non-empty list with as many spammy as organic hashtags, at
\* least one of each, scored 60
C20_Witness ==
  /\ Returned /\ last.args[2].present
  /\ Len(SelectSeq(last.args[2].hashtags, IsSpammy)) > 0
  /\ Len(SelectSeq(last.args[2].hashtags, IsSpammy))
       = Len(SelectSeq(last.args[2].hashtags, IsOrganic))
  /\ last.outcome.result.social_analysis.hashtag_authenticity = 60

\* the score C13 states for a sentiment breakdown: the ratios are pos/total
\* and neg/total, both 0 when total = 0
ClaimedReviewAuthenticity(sb) ==
  LET total == sb.positive + sb.negative + sb.neutral
  IN IF total > 0 /\ (10 * sb.positive > 9 * total \/ 10 * sb.negative > 8 * total)
     THEN 30
     ELSE IF /\ total > 0
             /\ 4 * total <= 10 * sb.positive /\ 10 * sb.positive <= 8 * total
             /\ 1 * total <= 10 * sb.negative /\ 10 * sb.negative <= 4 * total
     THEN 85
     ELSE 60

\* C13 as stated: for every present ReviewSummary the score is the 30 / 85 /
\* 60 rule on the breakdown, whatever total_reviews is
C13_Original ==
  (Returned /\ last.args[3].present) =>
    last.outcome.result.review_analysis.review_authenticity_score =
      ClaimedReviewAuthenticity(last.args[3].sentiment_breakdown)

\* C13: for a present ReviewSummary, review_authenticity_score is 50 when
\* total_reviews = 0 or the breakdown sums to 0; otherwise it is the 30 / 85 /
\* 60 rule on the breakdown alone
C13_ReviewAuthenticity ==
  (Returned /\ last.args[3].present) =>
    LET sb == last.args[3].sentiment_breakdown
    IN last.outcome.result.review_analysis.review_authenticity_score =
         IF last.args[3].total_reviews = 0
            \/ sb.positive + sb.negative + sb.neutral = 0
         THEN 50
         ELSE ClaimedReviewAuthenticity(sb)

\* C13 witness: a breakdown that sums to less than total_reviews, in the
\* natural-spread band, scored 85
C13_Witness ==
  /\ Returned /\ last.args[3].present
  /\ LET sb == last.args[3].sentiment_breakdown
     IN /\ sb.positive + sb.negative + sb.neutral \in 1..(last.args[3].total_reviews - 1)
        /\ 10 * sb.positive = 4 * (sb.positive + sb.negative + sb.neutral)
  /\ last.outcome.result.review_analysis.review_authenticity_score = 85

\* C14: for a present ReviewSummary, review_credibility is high when
\* total_reviews >= 20 and the authenticity score >= 70, otherwise medium
\* when total_reviews >= 5 and the score >= 50, otherwise low
C14_ReviewCredibility ==
  (Returned /\ last.args[3].present) =>
    LET ra == last.outcome.result.review_analysis
    IN ra.review_credibility =
         IF last.args[3].total_reviews >= 20 /\ ra.review_authenticity_score >= 70
         THEN "high"
         ELSE IF last.args[3].total_reviews >= 5 /\ ra.review_authenticity_score >= 50
         THEN "medium"
         ELSE "low"

\* C14 witness: the claim's second example, 87 reviews {84, 2, 1}, read low
C14_Witness ==
  /\ Returned /\ last.args[3].present
  /\ last.args[3].total_reviews = 87
  /\ last.args[3].sentiment_breakdown = [positive |-> 84, negative |-> 2, neutral |-> 1]
  /\ last.outcome.result.review_analysis.review_credibility = "low"

\* the last scrapeProduct call has settled
Scraped == last.called /\ last.op = "scrapeProduct"

\* the platform-specific scrape of a product-type URL throws: the platform's
\* scraper rejects (or, for OliveYoung, returns null); for the platforms
\* without a scraper of their own it is the first generic scrape
PlatformScrapeThrows(platform) ==
  CASE platform = "amazon" -> openPage.outcomes.amazon = "throw"
    [] platform = "yesstyle" -> openPage.outcomes.yesstyle = "throw"
    [] platform = "oliveyoung" -> openPage.outcomes.oliveyoung \in {"throw", "null"}
    [] OTHER -> openPage.outcomes.generic[1] = "throw"

\* how the generic scrape ends when run after the platform-specific scrape
FallbackOutcome(platform) ==
  IF platform \in {"amazon", "yesstyle", "oliveyoung"}
  THEN openPage.outcomes.generic[1] ELSE openPage.outcomes.generic[2]

\* C16: for a product-type URL, if the platform-specific scrape throws, the
\* generic scraper is run on the same URL and its result returned; the call
\* throws only if the generic attempt fails too, and then throws the
\* original error; for social and unknown URLs there is no generic fallback
C16_GracefulFallback ==
  Scraped =>
    LET url == last.args[1]
        info == detectPlatform(url)
        genericOnUrl == [scraper |-> "generic", url |-> url]
    IN CASE info.type = "product" ->
              IF ~PlatformScrapeThrows(info.platform)
              THEN ~last.outcome.threw /\ Len(openPage.visited) = 1
              ELSE /\ Len(openPage.visited) = 2
                   /\ openPage.visited[2] = genericOnUrl
                   /\ IF FallbackOutcome(info.platform) # "throw"
                      THEN /\ ~last.outcome.threw
                           /\ last.outcome.result =
                                GenericListing(FallbackOutcome(info.platform))
                      ELSE /\ last.outcome.threw
                           /\ last.outcome.result.call = 1
         [] info.type = "unknown" ->
              /\ openPage.visited = <<genericOnUrl>>
              /\ last.outcome.threw <=> openPage.outcomes.generic[1] = "throw"
         [] info.type = "social" ->
              \A i \in 1..Len(openPage.visited) : openPage.visited[i] # genericOnUrl

\* C16 witness: the platform scraper and the generic scraper both failed on
\* a product URL, and the call threw
C16_Witness ==
  /\ Scraped
  /\ detectPlatform(last.args[1]).platform = "amazon"
  /\ openPage.visited = <<[scraper |-> "amazon", url |-> last.args[1]],
                      [scraper |-> "generic", url |-> last.args[1]]>>
  /\ last.outcome.threw

\* C17: a scrapeProduct(page, url) that returns for a product URL returns a
\* record whose platform is the one detectPlatform derives from the URL
C17_PlatformMatches ==
  (/\ Scraped /\ ~last.outcome.threw
   /\ last.args[2] = NoUrl
   /\ detectPlatform(last.args[1]).type # "social")
  => last.outcome.result.platform = detectPlatform(last.args[1]).platform

\* the last analyzePrice call extracted a price from its text
PriceExtracted ==
  /\ last.called /\ last.op = "analyzePrice"
  /\ extractNumericPrice(last.args[1]) # Null

\* the extracted price of the last analyzePrice call is a number <= k
ExtractedLeq(k) ==
  LET p == extractNumericPrice(last.args[1])
  IN p.kind = "number" /\ p.num <= k * p.den

\* the tier label by the thresholds 15 / 30 / 60 / 100
ClaimedPriceRange ==
  IF ExtractedLeq(15) THEN <<"B","u","d","g","e","t"," ","(","$","0","-","$","1","5",")">>
  ELSE IF ExtractedLeq(30) THEN <<"A","f","f","o","r","d","a","b","l","e"," ","(","$","1","5","-","$","3","0",")">>
  ELSE IF ExtractedLeq(60) THEN <<"M","i","d","-","r","a","n","g","e"," ","(","$","3","0","-","$","6","0",")">>
  ELSE IF ExtractedLeq(100) THEN <<"P","r","e","m","i","u","m"," ","(","$","6","0","-","$","1","0","0",")">>
  ELSE <<"L","u","x","u","r","y"," ","(","$","1","0","0","+",")">>

ClaimedPriceVsIngredients(price, q) ==
  LET d == IF price.num > price.den THEN price.num ELSE price.den
      rounded == (2 * 80 * q * price.den + d) \div (2 * d)
  IN IF rounded < 0 THEN 0 ELSE IF rounded > 100 THEN 100 ELSE rounded

\* C22: for every price text and quality score, price_vs_ingredients is an
\* integer in 0..100, equal to clamp(round(0.8 q / max(price, 1) * 100)) when
\* a price is extracted, and value_assessment and market_comparison take
\* their enumerated values
C22_PriceAnalysisRange ==
  (last.called /\ last.op = "analyzePrice") =>
    LET r == last.outcome.result
        p == extractNumericPrice(last.args[1])
    IN /\ r.price_vs_ingredients \in 0..100
       /\ p # Null =>
            /\ p.kind = "number"
            /\ r.price_vs_ingredients = ClaimedPriceVsIngredients(p, last.args[2])
       /\ r.value_assessment \in {"excellent", "good", "fair", "poor", "unknown"}
       /\ r.market_comparison \in
            {"below_market", "market_rate", "above_market", "premium"}

----------------------------------------------------------------------------
(* C23: insight synthesis *)

\* the rules of each list in declaration order: the rule's own predicate over
\* the five sub-results of result r, and the one string it stands for
RedFlagRules(r) ==
  <<[fires |-> r.social_analysis.promotional_detected,
     says |-> Insight("Sponsored content detected - may be biased promotion", 0, <<>>)],
    [fires |-> r.social_analysis.affiliate_codes_found > 0,
     says |-> Insight("affiliate codes found - financial incentive present",
                      r.social_analysis.affiliate_codes_found, <<>>)],
    [fires |-> r.ingredient_analysis.potentially_harmful # <<>>,
     says |-> Insight("Contains potentially irritating ingredients: ", 0,
                      r.ingredient_analysis.potentially_harmful)],
    [fires |-> r.review_analysis.review_authenticity_score < 50,
     says |-> Insight("Review patterns suggest possible fake reviews", 0, <<>>)],
    [fires |-> r.price_analysis.value_assessment = "poor",
     says |-> Insight("Poor value for money - high price relative to ingredient quality",
                      0, <<>>)]>>

GreenFlagRules(r) ==
  <<[fires |-> ~r.social_analysis.promotional_detected
               /\ r.social_analysis.has_social_data,
     says |-> Insight("No promotional content detected - likely genuine recommendation",
                      0, <<>>)],
    [fires |-> r.ingredient_analysis.beneficial_ingredients # <<>>,
     says |-> Insight("Contains beneficial ingredients: ", 0,
                      r.ingredient_analysis.beneficial_ingredients)],
    [fires |-> r.product_analysis.brand_recognition = "well_known",
     says |-> Insight("Product from well-established brand", 0, <<>>)],
    [fires |-> r.review_analysis.review_credibility = "high",
     says |-> Insight("Reviews appear authentic and credible", 0, <<>>)],
    [fires |-> r.price_analysis.value_assessment \in {"excellent", "good"},
     says |-> Insight("Good value for money based on ingredient quality", 0, <<>>)]>>

RecommendationRules(r) ==
  <<[fires |-> r.social_analysis.promotional_detected,
     says |-> Insight("Research product independently before purchasing - sponsored content detected",
                      0, <<>>)],
    [fires |-> r.ingredient_analysis.potentially_harmful # <<>>,
     says |-> Insight("Patch test recommended due to potentially irritating ingredients",
                      0, <<>>)],
    [fires |-> r.review_analysis.review_count < 10,
     says |-> Insight("Look for more reviews from multiple sources before deciding",
                      0, <<>>)],
    [fires |-> r.price_analysis.market_comparison = "premium",
     says |-> Insight("Consider if premium price is justified by your specific skincare needs",
                      0, <<>>)]>>

\* the strings of the rules that fire, each once, in the order of the rules
RECURSIVE FiredRules(_)
FiredRules(rules) ==
  IF rules = <<>> THEN <<>>
  ELSE (IF Head(rules).fires THEN <<Head(rules).says>> ELSE <<>>)
       \o FiredRules(Tail(rules))

\* C23: in every result, red_flags, green_flags and recommendations are each
\* exactly the strings of the rules whose own predicate over the five
\* sub-results holds, one string per rule, in declaration order; no rule's
\* firing depends on another rule
C23_InsightRules ==
  Returned =>
    LET r == last.outcome.result
    IN /\ r.red_flags = FiredRules(RedFlagRules(r))
       /\ r.green_flags = FiredRules(GreenFlagRules(r))
       /\ r.recommendations = FiredRules(RecommendationRules(r))

\* a result in which the first rule of every list is silent while later rules
\* fire, with a silent rule between two firing ones
C23_Witness ==
  /\ Returned
  /\ LET r == last.outcome.result
     IN /\ ~r.social_analysis.promotional_detected
        /\ r.social_analysis.affiliate_codes_found > 0
        /\ r.ingredient_analysis.potentially_harmful = <<>>
        /\ r.price_analysis.value_assessment = "poor"
        /\ Len(r.red_flags) = 2
        /\ Len(r.green_flags) >= 2
        /\ Len(r.recommendations) >= 1

----------------------------------------------------------------------------
(* C24: the recommendation of a flagged ingredient *)

Classified == last.called /\ last.op = "analyzeIngredients"

\* the texts the priority rule allows for an entry and a profile: a concern
\* conflict first, then the skin-type conflict, then the generic message
ClaimedRecommendations(issue, severity, profile) ==
  LET acneConflict == concernsInclude(profile.concerns, "acne") /\ issue = <<"C","o","m","e","d","o","g","e","n","i","c">>
      sensitivityConflict ==
        concernsInclude(profile.concerns, "sensitivity") /\ severity = "high"
  IN IF acneConflict \/ sensitivityConflict
     THEN {t \in {<<"M","a","y"," ","t","r","i","g","g","e","r"," ","a","c","n","e"," ","b","r","e","a","k","o","u","t","s">>} : acneConflict}
          \cup {t \in {<<"H","i","g","h"," ","r","i","s","k"," ","f","o","r"," ","s","e","n","s","i","t","i","v","e"," ","s","k","i","n"," ","r","e","a","c","t","i","o","n","s">>} : sensitivityConflict}
     ELSE IF profile.skin_type = "sensitive" /\ severity = "high"
     THEN {<<"E","s","p","e","c","i","a","l","l","y"," ","a","v","o","i","d"," ","d","u","e"," ","t","o"," ","s","e","n","s","i","t","i","v","e"," ","s","k","i","n">>}
     ELSE IF profile.skin_type = "oily" /\ issue = <<"C","o","m","e","d","o","g","e","n","i","c">>
     THEN {<<"M","a","y"," ","w","o","r","s","e","n"," ","o","i","l","y"," ","s","k","i","n"," ","c","o","n","c","e","r","n","s">>}
     ELSE IF profile.skin_type = "dry" /\ issue = <<"D","r","y","i","n","g">>
     THEN {<<"M","a","y"," ","w","o","r","s","e","n"," ","d","r","y"," ","s","k","i","n"," ","c","o","n","c","e","r","n","s">>}
     ELSE {<<"C","o","n","s","i","d","e","r"," ","a","v","o","i","d","i","n","g"," ","d","u","e"," ","t","o"," ">> \o toLowerCase(issue)}

\* C24: every flagged ingredient's recommendation is the text the priority
\* rule selects from its issue, its severity, the skin type and the concerns:
\* a concern conflict (acne with Comedogenic, sensitivity with high severity),
\* else sensitive skin with high severity, else oily skin with Comedogenic or
\* dry skin with Drying, else the generic "avoid due to <issue>"
C24_RecommendationPriority ==
  Classified =>
    LET flagged == last.outcome.result.flaggedIngredients
        profile == last.args[2]
    IN \A i \in 1..Len(flagged) :
         flagged[i].recommendation
           \in ClaimedRecommendations(flagged[i].issue, flagged[i].severity, profile)

----------------------------------------------------------------------------
(* C25, C26: verdict and confidence *)

\* C25: a call without a social record never yields the verdict
\* likely_sponsored nor the confidence high, whatever the product and the
\* review summary
C25_NoSocialNoSponsored ==
  (Returned /\ ~last.args[2].present) =>
    /\ last.outcome.result.overall_verdict # "likely_sponsored"
    /\ last.outcome.result.confidence_level # "high"

\* C25 witness: no social record and a score above 80, which with social
\* data would read high
C25_Witness ==
  /\ Returned
  /\ ~last.args[2].present
  /\ last.outcome.result.reality_score > 80
  /\ last.outcome.result.overall_verdict = "authentic"
  /\ last.outcome.result.confidence_level = "medium"

\* C26: an authentic verdict has confidence medium or high, and confidence
\* low implies no social data, reality_score <= 60 and the verdict suspicious
C26_AuthenticIsConfident ==
  Returned =>
    LET r == last.outcome.result
    IN /\ r.overall_verdict = "authentic" => r.confidence_level \in {"medium", "high"}
       /\ r.confidence_level = "low" =>
            /\ ~r.social_analysis.has_social_data
            /\ JsLeq(r.reality_score, 60)
            /\ r.overall_verdict = "suspicious"

----------------------------------------------------------------------------
(* C27: the sponsored-content insights *)

\* whether a list of insights holds the one with the given text
HasInsight(insights, text) ==
  \E i \in 1..Len(insights) : insights[i].text = text

SponsoredRedFlag(r) ==
  HasInsight(r.red_flags, "Sponsored content detected - may be biased promotion")

GenuineGreenFlag(r) ==
  HasInsight(r.green_flags,
             "No promotional content detected - likely genuine recommendation")

ResearchRecommendation(r) ==
  HasInsight(r.recommendations,
             "Research product independently before purchasing - sponsored content detected")

\* C27: in every result the sponsored red flag and the genuine green flag are
\* never both present, the research recommendation is present exactly when
\* the sponsored red flag is, and then the verdict is likely_sponsored
C27_SponsoredInsights ==
  Returned =>
    LET r == last.outcome.result
    IN /\ ~(SponsoredRedFlag(r) /\ GenuineGreenFlag(r))
       /\ ResearchRecommendation(r) <=> SponsoredRedFlag(r)
       /\ SponsoredRedFlag(r) => r.overall_verdict = "likely_sponsored"

\* C27 witness: a result with the sponsored red flag and the research
\* recommendation whose sponsored probability alone would not decide the verdict
C27_Witness ==
  /\ Returned
  /\ SponsoredRedFlag(last.outcome.result)
  /\ ResearchRecommendation(last.outcome.result)
  /\ last.outcome.result.social_analysis.sponsored_content_probability <= 70
  /\ last.outcome.result.overall_verdict = "likely_sponsored"

----------------------------------------------------------------------------
(* C28, C29: the commands *)

\* the command ran the reality check after scrapeTikTok failed to read the
\* TikTok page
AnalysedAfterTikTokFailure ==
  /\ pc.fn = "analyzeProduct" /\ pc.at \in {"done", "catch"}
  /\ last.called /\ last.op = "analyzeProduct"
  /\ openPage.outcomes.tiktok = "minimal"
  /\ \E i \in 1..Len(openPage.visited) : openPage.visited[i].scraper = "tiktok"

\* C28: when the TikTok page cannot be read, the command runs the reality
\* check without social data: the engine is called as it is when no social
\* URL is given, so has_social_data is false and the social score is the
\* neutral 75
C28_TikTokFailureMeansNoSocial ==
  AnalysedAfterTikTokFailure =>
    /\ ~last.args[2].present
    /\ last.outcome = analyzeProduct(last.table, last.args[1], NoSocial, last.args[3])
    /\ ~last.outcome.threw => ~last.outcome.result.social_analysis.has_social_data

\* a browser that was launched and neither closed by browser.close() nor
\* ended with the process
LeftOpen == \E i \in 1..Len(browsers) : browsers[i].status = "open"

\* C29: every browser launched is eventually closed, on every path: from
\* some point on no launched browser is left open, whether the scrape
\* returned or threw
C29_BrowsersEventuallyClosed == <>[](~LeftOpen)

----------------------------------------------------------------------------
(* C30: the review summary counts every review once *)

Summarised == last.called /\ last.op = "generateReviewSummary"

\* C30: generateReviewSummary returns total_reviews = the number of reviews,
\* the positive, negative and neutral counts add up to total_reviews (every
\* review falls in exactly one bucket), and total_reviews is 0 exactly when
\* the three counts are all 0
C30_SummaryCountsEveryReview ==
  Summarised =>
    LET summary == last.outcome.result
        breakdown == summary.sentiment_breakdown
        list == last.args[1]
    IN /\ summary.total_reviews = Len(list)
       /\ breakdown.positive + breakdown.negative + breakdown.neutral
            = summary.total_reviews
       /\ \A i \in DOMAIN list :
            Cardinality({s \in {"positive", "negative", "neutral"} :
                           list[i].sentiment = s}) = 1
       /\ (summary.total_reviews = 0)
            <=> (breakdown.positive = 0 /\ breakdown.negative = 0
                 /\ breakdown.neutral = 0)

\* a full list with all three buckets filled, one of them by a review whose
\* keyword scores tie, has been summarised
C30_Witness ==
  /\ Summarised
  /\ Len(last.args[1]) = MaxReviews
  /\ last.outcome.result.sentiment_breakdown.positive > 0
  /\ last.outcome.result.sentiment_breakdown.negative > 0
  /\ last.outcome.result.sentiment_breakdown.neutral > 0
  /\ \E i \in DOMAIN last.args[1] :
       /\ ~last.args[1][i].rating.given
       /\ last.args[1][i].content = <<"g","o","o","d"," ","b","u","t"," ","b","a","d">>

====
